---- MODULE Spec2Model ----
(***************************************************************************)
(* Model of the EventTrigger deploy/undeploy engine of event-manager:      *)
(*  - the per (trigger, cluster) state machine (deployEventTrigger,        *)
(*    undeployEventTrigger, processEventTrigger, removeEventTrigger),      *)
(*  - the dispatcher it drives (libsveltos deployer, modelled from the     *)
(*    contract of section 4.4 of the specification),                       *)
(*  - the reference counting of remote EventSources, and                   *)
(*  - the expansion / sweep of derived ClusterProfiles.                    *)
(* One EventTrigger is modelled; the dispatcher key is (cluster, cleanup). *)
(***************************************************************************)
EXTENDS Integers, Sequences, FiniteSets, TLC

\* ------------------------------------------------------------------ bounds
MaxHash == 2        \* number of distinct fingerprints the configuration takes
WorkerCount == 2    \* size of the dispatcher's worker pool
MaxNames == 2       \* names the random name generator can return
MaxResources == 2   \* matching resources an EventReport lists at most
MaxEdits == 2       \* edits of the trigger and of its EventReport
MaxKeys == 2        \* entries of a map-valued field
MaxValuesFrom == 2  \* entries of a valuesFrom list
MaxVersion == 7     \* resourceVersion the trigger reaches at most
MaxDerived == 2     \* derived ClusterProfiles of the management cluster
DefaultRetrySteps == 5  \* retry.DefaultRetry: Steps

\* --------------------------------------------------------------- constants
Clusters == {"c1", "c2"}
ClusterOrder == <<"c1", "c2">>
\* clusters whose shard annotation matches r.ShardKey (sharding.IsShardAMatch)
LocalClusters == {"c1"}

NilHash == 0        \* Hash: nil
EmptyHash == 99     \* base64("empty"), the sentinel of a shard-foreign entry

NilMsg == "<nil>"   \* FailureMessage: nil
NilErr == ""        \* error: nil
NilStatus == "<nil>"

\* a nil *ClusterInfo
NilClusterInfo ==
    [cluster |-> "<nil>", status |-> "", hash |-> NilHash, failureMessage |-> NilMsg]

ClusterInfoOf(c, s, h, m) ==
    [cluster |-> c, status |-> s, hash |-> h, failureMessage |-> m]

VARIABLES
    \* environment
    trigger,              \* "live" | "deleting" (DeletionTimestamp set) | "gone"
    matchingClusterRefs,  \* status.matchingClusterRefs, as a set
    currentHash,          \* the value eventTriggerHash returns now
    notReady,             \* clusters that are paused or not ready to be configured
    frozen,               \* configuration, matches and handler outcomes are stable
    \* the EventTrigger object on the API server
    clusterInfo,          \* status.clusterInfo
    \* dispatcher
    dirty, inProgress, jobQueue, results,
    \* the reconcile in progress
    pc, idx, mode,
    resource,             \* resource.Status.ClusterInfo of the object the pass holds
    before,               \* status.clusterInfo as read when the pass started
    errorSeen, allProcessed,
    ret,                  \* what the last per-cluster call returned
    requeue               \* a reconcile request for the trigger is queued

envVars == <<trigger, matchingClusterRefs, currentHash, notReady, frozen>>
dispVars == <<dirty, inProgress, jobQueue, results>>
passVars == <<pc, idx, mode, resource, before, errorSeen, allProcessed, ret, requeue>>

\* The handlers' view of one managed cluster and of the management cluster:
\* the EventTriggers, the EventSources and the EventReports.
VARIABLES
    esTrigger,            \* per EventTrigger: "live" | "deleting" | "gone"
    eventSourceName,      \* per EventTrigger: spec.eventSourceName
    mgmtEventSources,     \* EventSources defined in the management cluster
    eventSources,         \* per name: the EventSource in the managed cluster
    eventReports,         \* names of the EventSources with EventReports pulled
    esRet                 \* what the last handler returned

esVars == <<esTrigger, eventSourceName, mgmtEventSources, eventSources, eventReports,
           esRet>>

\* The management cluster as the expansion of one (trigger, cluster) sees it.
VARIABLES
    oneForEvent,          \* spec.oneForEvent
    policyRefs,           \* the templated ConfigMaps spec.policyRefs names
    eventReport,          \* the EventReport of the trigger's EventSource
    clusterProfiles,      \* the derived ClusterProfiles
    configMaps,           \* the derived ConfigMaps of ReportNamespace
    cpPc, cpIdx,          \* where updateClusterProfiles is
    current,              \* the clusterProfiles slice of the run
    cpStart,              \* the derived objects when the run started
    again,                \* the last run succeeded on the inputs of this one
    edits,                \* edits of the inputs so far
    cpRet                 \* what the last run returned

cpVars == <<oneForEvent, policyRefs, eventReport, clusterProfiles, configMaps, cpPc,
           cpIdx, current, cpStart, again, edits, cpRet>>

\* Two evaluations of eventTriggerHash, on two replicas.
VARIABLES
    hashIn,               \* the trigger and the resources each evaluation reads
    hashOut               \* the digest each evaluation returned

hashVars == <<hashIn, hashOut>>

\* The index of the reconciler and the answer of the last matcher call.
VARIABLES
    ClusterMap,           \* cluster -> the triggers that tracked it
    EventSourceMap,       \* EventSource -> the triggers referencing it
    ReferenceMap,         \* ConfigMap / Secret -> the triggers referencing it
    EventTriggers,        \* trigger -> its sourceSelector
    ClusterLabels,        \* cluster -> the labels seen last
    lastCall,             \* the last matcher call
    requests              \* the list it returned

mxVars == <<ClusterMap, EventSourceMap, ReferenceMap, EventTriggers, ClusterLabels,
           lastCall, requests>>

\* The valuesFrom references of one helm chart and what they name.
VARIABLES
    vfSources,            \* per name: the referenced ConfigMap of the management cluster
    vfValuesFrom,         \* the valuesFrom list of the chart, as the trigger writes it
    vfConfigMaps,         \* the derived ConfigMaps of ReportNamespace
    vfRet                 \* what the last call of instantiateValuesFrom returned

vfVars == <<vfSources, vfValuesFrom, vfConfigMaps, vfRet>>

\* The trigger on the API server as removeClusterInfoEntry sees it.
VARIABLES
    swObject,             \* resourceVersion and status.clusterInfo on the API server
    swRead,               \* the object the attempt has read
    swPc,                 \* where removeClusterInfoEntry is
    swAttempts,           \* attempts of retry.RetryOnConflict so far
    swRet                 \* what the last call returned

swVars == <<swObject, swRead, swPc, swAttempts, swRet>>

\* The derived objects of every trigger and cluster, and the user's ConfigMaps.
VARIABLES
    mcClusterProfiles,    \* the ClusterProfiles of the management cluster
    mcConfigMaps,         \* its ConfigMaps, of every namespace
    mcRet                 \* the last call of removeInstantiatedResources

mcVars == <<mcClusterProfiles, mcConfigMaps, mcRet>>

\* the sections added to the four above
extVars == <<vfVars, swVars, mcVars>>

\* what the state machine and the dispatcher do not touch
auxVars == <<esVars, cpVars, hashVars, mxVars, extVars>>

smVars == <<envVars, clusterInfo, dispVars, passVars>>
vars == <<smVars, auxVars>>

\* what the handlers of the EventSources / the expansion do not touch
notES == <<smVars, cpVars, hashVars, mxVars, extVars>>
notCP == <<smVars, esVars, hashVars, mxVars, extVars>>

\* ------------------------------------------------------------- sequences
InSeq(k, s) == \E i \in 1..Len(s) : s[i] = k

FirstIndex(k, s) == CHOOSE i \in 1..Len(s) : s[i] = k /\ \A j \in 1..(i-1) : s[j] # k

\* remove the first occurrence of k (the Go loops break after one removal)
RemoveFirst(k, s) ==
    IF ~InSeq(k, s) THEN s
    ELSE LET i == FirstIndex(k, s)
         IN  SubSeq(s, 1, i-1) \o SubSeq(s, i+1, Len(s))

Count(k, s) == Cardinality({i \in 1..Len(s) : s[i] = k})

\* ------------------------------------------------------------- dispatcher
Keys == Clusters \X BOOLEAN
Key(c, cleanup) == <<c, cleanup>>
Opposite(k) == <<k[1], ~k[2]>>

Disp == [dirty |-> dirty, inProgress |-> inProgress, jobQueue |-> jobQueue,
         results |-> results]

SetDisp(d) ==
    /\ dirty' = d.dirty
    /\ inProgress' = d.inProgress
    /\ jobQueue' = d.jobQueue
    /\ results' = d.results

\* cleanupEntries(key): drop the result and the pending entries of the key
CleanupEntries(d, k) ==
    [d EXCEPT !.results[k] = "none",
              !.dirty = RemoveFirst(k, @),
              !.jobQueue = RemoveFirst(k, @)]

IsInProgress(d, k) == InSeq(k, d.inProgress)

\* getResult(key)
GetResult(d, k) ==
    IF d.results[k] = "ok" THEN (IF k[2] THEN "Removed" ELSE "Deployed")
    ELSE IF d.results[k] = "err" THEN "Failed"
    ELSE IF InSeq(k, d.inProgress) \/ InSeq(k, d.dirty) THEN "InProgress"
    ELSE "Unavailable"

\* submit(key, handler) is rejected while the opposite direction is running
DeployRejected(d, k) == IsInProgress(d, Opposite(k))

\* submit(key, handler): coalesce with a pending request, clear the old result
Deploy(d, k) ==
    IF InSeq(k, d.dirty) THEN d
    ELSE LET d1 == [d EXCEPT !.results[k] = "none", !.dirty = Append(@, k)]
         IN  IF InSeq(k, d1.inProgress) THEN d1
             ELSE [d1 EXCEPT !.jobQueue = Append(@, k)]

\* ------------------------------------------------------ state machine, pure
isClusterAShardMatch(c) == c \in LocalClusters

isClusterStillMatching(c) == c \in matchingClusterRefs

canProceed(c) == c \notin notReady

\* convertResultStatus with a Deployed result taken for a job still running
convertResultStatus_DeployedAsProvisioning(r) ==
    CASE r = "Deployed"    -> "Provisioning"
      [] r = "Failed"      -> "Failed"
      [] r = "InProgress"  -> "Provisioning"
      [] r = "Removed"     -> "Removed"
      [] OTHER             -> NilStatus

convertResultStatus(r) ==
    CASE r = "Deployed"    -> "Provisioned"
      [] r = "Failed"      -> "Failed"
      [] r = "InProgress"  -> "Provisioning"
      [] r = "Removed"     -> "Removed"
      [] OTHER             -> NilStatus

HasEntry(ci, c) == \E i \in 1..Len(ci) : ci[i].cluster = c

EntryIndex(ci, c) ==
    CHOOSE i \in 1..Len(ci) : ci[i].cluster = c /\ \A j \in 1..(i-1) : ci[j].cluster # c

\* getClusterHashAndStatus: hash and status of the first entry of the cluster
getClusterHashAndStatus(ci, c) ==
    IF HasEntry(ci, c)
    THEN [hash |-> ci[EntryIndex(ci, c)].hash, status |-> ci[EntryIndex(ci, c)].status]
    ELSE [hash |-> NilHash, status |-> NilStatus]

isClusterEntryRemoved(ci, c) == ~HasEntry(ci, c)

\* remove(s, i) without the truncation of line 630
remove_NoTruncate(s, i) ==
    [s EXCEPT ![i] = s[Len(s)]]

\* remove(s, i): the last entry takes the place of entry i
remove(s, i) ==
    IF i = Len(s) THEN SubSeq(s, 1, Len(s) - 1)
    ELSE SubSeq([s EXCEPT ![i] = s[Len(s)]], 1, Len(s) - 1)

\* removeClusterInfoEntry, applied to the object read from the API server
removeClusterInfoEntry(ci, c) ==
    IF HasEntry(ci, c) THEN remove(ci, EntryIndex(ci, c)) ELSE ci


\* ------------------------------------------------------------- environment
Hashes == 1..MaxHash

NoRet == [cluster |-> "<nil>", ci |-> NilClusterInfo, err |-> NilErr]

SMInit ==
    /\ trigger = "live"
    /\ matchingClusterRefs = {}
    /\ currentHash = 1
    /\ notReady = {}
    /\ frozen = FALSE
    /\ clusterInfo = <<>>
    /\ dirty = <<>>
    /\ inProgress = <<>>
    /\ jobQueue = <<>>
    /\ results = [k \in Keys |-> "none"]
    /\ pc = "idle"
    /\ idx = 1
    /\ mode = "deploy"
    /\ resource = <<>>
    /\ before = <<>>
    /\ errorSeen = NilErr
    /\ allProcessed = TRUE
    /\ ret = NoRet
    /\ requeue = FALSE

EnvQuiet == pc = "idle" /\ ~frozen /\ trigger = "live"

EnvFrame ==
    UNCHANGED <<clusterInfo, dispVars, pc, idx, mode, resource, before, errorSeen,
                allProcessed, ret, auxVars>>

\* the cluster's labels change and the sourceSelector starts / stops matching
ClusterStartsMatching(c) ==
    /\ EnvQuiet
    /\ c \notin matchingClusterRefs
    /\ matchingClusterRefs' = matchingClusterRefs \cup {c}
    /\ requeue' = TRUE
    /\ UNCHANGED <<trigger, currentHash, notReady, frozen>>
    /\ EnvFrame

ClusterStopsMatching(c) ==
    /\ EnvQuiet
    /\ c \in matchingClusterRefs
    /\ matchingClusterRefs' = matchingClusterRefs \ {c}
    /\ requeue' = TRUE
    /\ UNCHANGED <<trigger, currentHash, notReady, frozen>>
    /\ EnvFrame

\* the trigger's spec, its labels or a referenced resource changes
ConfigChange(h) ==
    /\ EnvQuiet
    /\ h # currentHash
    /\ currentHash' = h
    /\ requeue' = TRUE
    /\ UNCHANGED <<trigger, matchingClusterRefs, notReady, frozen>>
    /\ EnvFrame

\* a local cluster is paused / unpaused, becomes ready / not ready
ClusterReadiness(c) ==
    /\ EnvQuiet
    /\ c \in LocalClusters
    /\ notReady' = IF c \in notReady THEN notReady \ {c} ELSE notReady \cup {c}
    /\ requeue' = TRUE
    /\ UNCHANGED <<trigger, matchingClusterRefs, currentHash, frozen>>
    /\ EnvFrame

\* The EventTrigger is deleted: its DeletionTimestamp is set. From then on
\* only undeployEventTrigger runs, which reads neither matchingClusterRefs nor
\* the fingerprint nor the readiness of a cluster: the model forgets them.
DeleteTrigger ==
    /\ EnvQuiet
    /\ trigger' = "deleting"
    /\ matchingClusterRefs' = {}
    /\ currentHash' = 1
    /\ notReady' = {}
    /\ requeue' = TRUE
    /\ UNCHANGED frozen
    /\ EnvFrame

\* from now on nothing in the environment changes and handlers succeed
Freeze ==
    /\ pc = "idle"
    /\ ~frozen
    /\ frozen' = TRUE
    /\ UNCHANGED <<trigger, matchingClusterRefs, currentHash, notReady, requeue>>
    /\ EnvFrame

\* The replica owning a shard-foreign cluster records its own progress in the
\* entry of that cluster ("another deployment will deploy and update this
\* specific clusterInfo status"): Provisioned once it has deployed to a
\* matching cluster, Removed once it has cleaned up a cluster that stopped
\* matching or whose trigger is being deleted.
PeerStatus(c) ==
    IF trigger = "live" /\ c \in matchingClusterRefs
    THEN ClusterInfoOf(c, "Provisioned", currentHash, "")
    ELSE ClusterInfoOf(c, "Removed", NilHash, NilMsg)

PeerUpdate(c) ==
    /\ pc = "idle"
    /\ ~frozen
    /\ trigger # "gone"
    /\ c \notin LocalClusters
    /\ HasEntry(clusterInfo, c)
    /\ LET i == EntryIndex(clusterInfo, c)
       IN  /\ clusterInfo[i].status # PeerStatus(c).status
           /\ clusterInfo' = [clusterInfo EXCEPT ![i] = PeerStatus(c)]
    /\ requeue' = TRUE
    /\ UNCHANGED <<envVars, dispVars, pc, idx, mode, resource, before, errorSeen,
                   allProcessed, ret, auxVars>>

\* The controller process restarts between two passes: the dispatcher lives in
\* the memory of the process, so its requests, its running handlers and its
\* results are lost, and the trigger is reconciled again.
Restart ==
    /\ pc = "idle"
    /\ ~frozen
    /\ trigger # "gone"
    /\ dirty' = <<>>
    /\ inProgress' = <<>>
    /\ jobQueue' = <<>>
    /\ results' = [k \in Keys |-> "none"]
    /\ <<dirty', inProgress', jobQueue', results'>> # dispVars
    /\ requeue' = TRUE
    /\ UNCHANGED <<envVars, clusterInfo, pc, idx, mode, resource, before, errorSeen,
                   allProcessed, ret, auxVars>>

\* ---------------------------------------------------------- the reconciler
\* updateClusterInfo: every matching cluster without an entry gets an empty one
NewEntries(ci, i) ==
    IF ClusterOrder[i] \in matchingClusterRefs /\ ~HasEntry(ci, ClusterOrder[i])
    THEN <<ClusterInfoOf(ClusterOrder[i], "", NilHash, NilMsg)>>
    ELSE <<>>

updateClusterInfo(ci) == ci \o NewEntries(ci, 1) \o NewEntries(ci, 2)

\* Reconcile: read the trigger, then deployEventTrigger or undeployEventTrigger
StartReconcile ==
    /\ pc = "idle"
    /\ trigger # "gone"
    /\ before' = clusterInfo
    /\ mode' = IF trigger = "live" THEN "deploy" ELSE "undeploy"
    /\ resource' = IF trigger = "live" THEN updateClusterInfo(clusterInfo)
                   ELSE clusterInfo
    /\ idx' = 1
    /\ errorSeen' = NilErr
    /\ allProcessed' = TRUE
    /\ ret' = NoRet
    /\ requeue' = FALSE
    /\ pc' = "sweep"
    /\ UNCHANGED <<envVars, clusterInfo, dispVars, auxVars>>

Cur == resource[idx].cluster

\* deployEventTrigger without lines 145-147: a status other than Provisioned
\* does not clear allProcessed
DeployLoopReturn_KeepAllProcessed(ci, err) ==
    /\ errorSeen' = IF err # NilErr THEN err ELSE errorSeen
    /\ resource' = IF ci # NilClusterInfo THEN [resource EXCEPT ![idx] = ci]
                   ELSE resource
    /\ allProcessed' = allProcessed

\* deployEventTrigger, lines 138-148: what the loop does with the values
\* processEventTrigger returned for entry idx
DeployLoopReturn(ci, err) ==
    /\ errorSeen' = IF err # NilErr THEN err ELSE errorSeen
    /\ resource' = IF ci # NilClusterInfo THEN [resource EXCEPT ![idx] = ci]
                   ELSE resource
    /\ allProcessed' = IF ci # NilClusterInfo /\ ci.status # "Provisioned"
                       THEN FALSE ELSE allProcessed

\* the entry is marked Removed whatever removeEventTrigger returned
UndeployLoopReturn_AlwaysRemoved(ci, err) ==
    /\ errorSeen' = IF err # NilErr THEN err ELSE errorSeen
    /\ resource' = [resource EXCEPT ![idx].status = "Removed"]
    /\ allProcessed' = allProcessed

\* undeployEventTrigger, lines 194-200
UndeployLoopReturn(ci, err) ==
    /\ errorSeen' = IF err # NilErr THEN err ELSE errorSeen
    /\ resource' = IF err # NilErr THEN resource
                   ELSE [resource EXCEPT ![idx].status = "Removed"]
    /\ allProcessed' = allProcessed

\* the per-cluster call returns (ci, err) to the sweep that made it
Return(ci, err) ==
    /\ IF mode = "deploy" THEN DeployLoopReturn(ci, err)
       ELSE UndeployLoopReturn(ci, err)
    /\ ret' = [cluster |-> Cur, ci |-> ci, err |-> err]
    /\ idx' = idx + 1
    /\ pc' = "sweep"

\* removeEventTrigger entered without dropping the queued deploy request
removeEventTriggerEnter_KeepQueued ==
    /\ pc' = "rm_clean"
    /\ UNCHANGED <<dispVars, idx, resource, errorSeen, allProcessed, ret>>

\* removeEventTrigger, lines 424-426: drop any queued deploy request
removeEventTriggerEnter ==
    /\ SetDisp(CleanupEntries(Disp, Key(Cur, FALSE)))
    /\ pc' = "rm_clean"
    /\ UNCHANGED <<idx, resource, errorSeen, allProcessed, ret>>

\* processEventTrigger, lines 321-342
processEventTriggerEnter ==
    IF ~isClusterStillMatching(Cur) THEN removeEventTriggerEnter
    ELSE IF ~canProceed(Cur)
         THEN Return(NilClusterInfo, NilErr) /\ UNCHANGED dispVars
         ELSE /\ SetDisp(CleanupEntries(Disp, Key(Cur, TRUE)))
              /\ pc' = "pr_clean"
              /\ UNCHANGED <<idx, resource, errorSeen, allProcessed, ret>>

\* the sentinel written over whatever hash the entry holds
ForeignEntry_AlwaysSentinel(e) ==
    [e EXCEPT !.hash = EmptyHash]

\* deployEventTrigger, lines 121-136: the entry of a shard-foreign cluster
ForeignEntry(e) ==
    [e EXCEPT !.hash = IF @ = NilHash THEN EmptyHash ELSE @]

\* can isClusterAShardMatch fail now: GetCluster returns an error other than
\* NotFound
LookupCanFail == ~frozen

\* deployEventTrigger: one iteration of the loop over status.clusterInfo; when
\* the shard lookup fails the function returns its error at once (line 117)
deployEventTriggerStep(lookupFails) ==
    /\ pc = "sweep"
    /\ mode = "deploy"
    /\ idx <= Len(resource)
    /\ lookupFails => LookupCanFail
    /\ IF lookupFails
       THEN /\ errorSeen' = "get cluster failed"
            /\ pc' = "return"
            /\ UNCHANGED <<dispVars, idx, resource, allProcessed, ret>>
       ELSE IF ~isClusterAShardMatch(Cur)
       THEN /\ resource' = [resource EXCEPT ![idx] = ForeignEntry(@)]
            /\ allProcessed' = (allProcessed /\ resource[idx].status = "Provisioned")
            /\ idx' = idx + 1
            /\ UNCHANGED <<dispVars, pc, errorSeen, ret>>
       ELSE processEventTriggerEnter
    /\ UNCHANGED <<envVars, clusterInfo, mode, before, requeue, auxVars>>

\* undeployEventTrigger, line 184: must the cluster be left to its own replica
WaitForOtherShard(c, status) == ~isClusterAShardMatch(c) /\ status # "Removed"

\* undeployEventTrigger: one iteration of the loop over clusterInfo
undeployEventTriggerStep(lookupFails) ==
    /\ pc = "sweep"
    /\ mode = "undeploy"
    /\ idx <= Len(resource)
    /\ lookupFails => LookupCanFail
    /\ IF lookupFails
       THEN /\ errorSeen' = "get cluster failed"
            /\ idx' = idx + 1
            /\ UNCHANGED <<dispVars, pc, resource, allProcessed, ret>>
       ELSE IF WaitForOtherShard(Cur, resource[idx].status)
       THEN /\ errorSeen' = "remove pending"
            /\ idx' = idx + 1
            /\ UNCHANGED <<dispVars, pc, resource, allProcessed, ret>>
       ELSE removeEventTriggerEnter
    /\ UNCHANGED <<envVars, clusterInfo, mode, before, requeue, auxVars>>

\* the check of line 347 left out
CleanupStillRunning_Never(d, c) == FALSE

\* processEventTrigger, line 347
CleanupStillRunning(d, c) == IsInProgress(d, Key(c, TRUE))

\* processEventTrigger with the test of line 383 turned round: a Deployed
\* result on an unchanged fingerprint is reported as still being provisioned
processEventTriggerDecide_DeployedInProgress(d, ci, c, h) ==
    LET hs == getClusterHashAndStatus(ci, c)
        isConfigSame == (hs.hash = h)
        result == IF isConfigSame THEN GetResult(d, Key(c, FALSE)) ELSE "Unavailable"
        status == IF isConfigSame THEN convertResultStatus(result) ELSE NilStatus
    IN  IF status = "Provisioned" /\ hs.status = "Provisioned"
        THEN [ci |-> ClusterInfoOf(c, "Provisioning", h, ""),
              err |-> "still being provisioned", submit |-> FALSE]
        ELSE IF status = "Provisioned"
        THEN [ci |-> ClusterInfoOf(c, status, h, ""), err |-> NilErr, submit |-> FALSE]
        ELSE IF status = "Provisioning"
        THEN [ci |-> ClusterInfoOf(c, status, h, ""),
              err |-> "still being provisioned", submit |-> FALSE]
        ELSE IF status # NilStatus
        THEN [ci |-> ClusterInfoOf(c, status, h, NilMsg), err |-> NilErr,
              submit |-> FALSE]
        ELSE IF isConfigSame /\ hs.status = "Provisioned"
        THEN [ci |-> ClusterInfoOf(c, "Provisioned", h, NilMsg), err |-> NilErr,
              submit |-> FALSE]
        ELSE [ci |-> ClusterInfoOf(c, "Provisioning", h, NilMsg), err |-> NilErr,
              submit |-> TRUE]

\* an unchanged trigger without a result is deployed again
processEventTriggerDecide_NoAlreadyDeployed(d, ci, c, h) ==
    LET hs == getClusterHashAndStatus(ci, c)
        isConfigSame == (hs.hash = h)
        result == IF isConfigSame THEN GetResult(d, Key(c, FALSE)) ELSE "Unavailable"
        status == IF isConfigSame THEN convertResultStatus(result) ELSE NilStatus
        errorMessage == IF result = "Failed" THEN "handler error" ELSE ""
    IN  IF status = "Provisioned"
        THEN [ci |-> ClusterInfoOf(c, status, h, errorMessage), err |-> NilErr,
              submit |-> FALSE]
        ELSE IF status = "Provisioning"
        THEN [ci |-> ClusterInfoOf(c, status, h, errorMessage),
              err |-> "still being provisioned", submit |-> FALSE]
        ELSE IF status # NilStatus
        THEN [ci |-> ClusterInfoOf(c, status, h, NilMsg), err |-> NilErr,
              submit |-> FALSE]
        ELSE [ci |-> ClusterInfoOf(c, "Provisioning", h, NilMsg), err |-> NilErr,
              submit |-> TRUE]

\* processEventTrigger without the Deploy call of lines 400-403
processEventTriggerDecide_NoDeploy(d, ci, c, h) ==
    LET hs == getClusterHashAndStatus(ci, c)
        isConfigSame == (hs.hash = h)
        result == IF isConfigSame THEN GetResult(d, Key(c, FALSE)) ELSE "Unavailable"
        status == IF isConfigSame THEN convertResultStatus(result) ELSE NilStatus
        errorMessage == IF result = "Failed" THEN "handler error" ELSE ""
    IN  IF status = "Provisioned"
        THEN [ci |-> ClusterInfoOf(c, status, h, errorMessage), err |-> NilErr,
              submit |-> FALSE]
        ELSE IF status = "Provisioning"
        THEN [ci |-> ClusterInfoOf(c, status, h, errorMessage),
              err |-> "still being provisioned", submit |-> FALSE]
        ELSE IF status # NilStatus
        THEN [ci |-> ClusterInfoOf(c, status, h, NilMsg), err |-> NilErr,
              submit |-> FALSE]
        ELSE IF isConfigSame /\ hs.status = "Provisioned"
        THEN [ci |-> ClusterInfoOf(c, "Provisioned", h, NilMsg), err |-> NilErr,
              submit |-> FALSE]
        ELSE [ci |-> ClusterInfoOf(c, "Provisioning", h, NilMsg), err |-> NilErr,
              submit |-> FALSE]

\* processEventTrigger, lines 352-413: (ci, err, submit) decided from the stored
\* hash and status and from the dispatcher's result for the deploy key
processEventTriggerDecide(d, ci, c, h) ==
    LET hs == getClusterHashAndStatus(ci, c)
        isConfigSame == (hs.hash = h)
        result == IF isConfigSame THEN GetResult(d, Key(c, FALSE)) ELSE "Unavailable"
        status == IF isConfigSame THEN convertResultStatus(result) ELSE NilStatus
        errorMessage == IF result = "Failed" THEN "handler error" ELSE ""
    IN  IF status = "Provisioned"
        THEN [ci |-> ClusterInfoOf(c, status, h, errorMessage), err |-> NilErr,
              submit |-> FALSE]
        ELSE IF status = "Provisioning"
        THEN [ci |-> ClusterInfoOf(c, status, h, errorMessage),
              err |-> "still being provisioned", submit |-> FALSE]
        ELSE IF status # NilStatus
        THEN [ci |-> ClusterInfoOf(c, status, h, NilMsg), err |-> NilErr,
              submit |-> FALSE]
        ELSE IF isConfigSame /\ hs.status = "Provisioned"
        THEN [ci |-> ClusterInfoOf(c, "Provisioned", h, NilMsg), err |-> NilErr,
              submit |-> FALSE]
        ELSE [ci |-> ClusterInfoOf(c, "Provisioning", h, NilMsg), err |-> NilErr,
              submit |-> TRUE]

\* processEventTrigger, lines 344-413: the calls that follow CleanupEntries.
\* They are one step: no cleanup request is pending after CleanupEntries, so
\* no worker step between these calls can change what IsInProgress answered,
\* and a deploy is queued on an unchanged fingerprint only when the deploy
\* key has neither a result nor a request.
processEventTriggerBody ==
    /\ pc = "pr_clean"
    /\ IF CleanupStillRunning(Disp, Cur)
       THEN Return(NilClusterInfo, "cleanup in progress") /\ UNCHANGED dispVars
       ELSE LET r == processEventTriggerDecide(Disp, resource, Cur, currentHash)
            IN  IF ~r.submit
                THEN Return(r.ci, r.err) /\ UNCHANGED dispVars
                ELSE IF DeployRejected(Disp, Key(Cur, FALSE))
                THEN Return(NilClusterInfo, "inProgress") /\ UNCHANGED dispVars
                ELSE /\ SetDisp(Deploy(Disp, Key(Cur, FALSE)))
                     /\ Return(r.ci, r.err)
    /\ UNCHANGED <<envVars, clusterInfo, mode, before, requeue, auxVars>>

\* removeEventTrigger, line 431
DeployStillRunning(d, c) == IsInProgress(d, Key(c, FALSE))

\* removeEventTrigger, lines 444-470: "removing", "removed" or "submit"
removeEventTriggerDecide(d, c) ==
    LET status == convertResultStatus(GetResult(d, Key(c, TRUE)))
    IN  IF status = "Removing" THEN "removing"
        ELSE IF status = "Removed" THEN "removed"
        ELSE "submit"

\* removeEventTrigger, lines 428-470: the calls that follow CleanupEntries
removeEventTriggerBody ==
    /\ pc = "rm_clean"
    /\ IF DeployStillRunning(Disp, Cur)
       THEN Return(NilClusterInfo, "deploy in progress") /\ UNCHANGED clusterInfo
       ELSE IF isClusterEntryRemoved(resource, Cur)
       THEN Return(NilClusterInfo, NilErr) /\ UNCHANGED clusterInfo
       ELSE LET r == removeEventTriggerDecide(Disp, Cur)
            IN  CASE r = "removing" ->
                       /\ Return(ClusterInfoOf(Cur, "Removing", NilHash, NilMsg),
                                 "still being removed")
                       /\ UNCHANGED clusterInfo
                  [] r = "removed" ->
                       /\ clusterInfo' = removeClusterInfoEntry(clusterInfo, Cur)
                       /\ Return(ClusterInfoOf(Cur, "Removed", NilHash, NilMsg), NilErr)
                  [] OTHER ->
                       /\ pc' = "rm_submit"
                       /\ UNCHANGED <<clusterInfo, idx, resource, errorSeen,
                                      allProcessed, ret>>
    /\ UNCHANGED <<envVars, dispVars, mode, before, requeue, auxVars>>

\* removeEventTrigger, lines 472-479: queue the cleanup handler
removeEventTriggerSubmit ==
    /\ pc = "rm_submit"
    /\ IF DeployRejected(Disp, Key(Cur, TRUE))
       THEN Return(NilClusterInfo, "inProgress") /\ UNCHANGED dispVars
       ELSE /\ SetDisp(Deploy(Disp, Key(Cur, TRUE)))
            /\ Return(ClusterInfoOf(Cur, "Removing", NilHash, NilMsg),
                      "cleanup request is queued")
    /\ UNCHANGED <<envVars, clusterInfo, mode, before, requeue, auxVars>>

\* deployEventTrigger, lines 151-162 / undeployEventTrigger, line 203
SweepError ==
    IF errorSeen # NilErr THEN errorSeen
    ELSE IF mode = "deploy" /\ ~allProcessed THEN "still queued"
    ELSE NilErr

\* The scope is closed: the status the pass holds is patched onto the object
\* when it differs from the status the pass started from; a trigger whose
\* undeploy succeeded loses its finalizer and is gone.
Close ==
    /\ \/ pc = "sweep" /\ idx > Len(resource)
       \/ pc = "return"
    /\ requeue' = (SweepError # NilErr)
    /\ IF mode = "undeploy" /\ SweepError = NilErr
       THEN /\ trigger' = "gone"
            /\ clusterInfo' = <<>>
       ELSE /\ trigger' = trigger
            /\ clusterInfo' = IF resource # before THEN resource ELSE clusterInfo
    /\ pc' = "idle"
    /\ idx' = 1
    /\ resource' = <<>>
    /\ before' = <<>>
    /\ errorSeen' = NilErr
    /\ allProcessed' = TRUE
    /\ ret' = NoRet
    /\ UNCHANGED <<matchingClusterRefs, currentHash, notReady, frozen, dispVars, mode,
                   auxVars>>

\* ------------------------------------------------------------- the workers
\* a worker takes the head of the job queue
WorkerTake ==
    /\ jobQueue # <<>>
    /\ Len(inProgress) < WorkerCount
    /\ LET k == Head(jobQueue)
       IN  /\ jobQueue' = Tail(jobQueue)
           /\ inProgress' = Append(inProgress, k)
           /\ dirty' = RemoveFirst(k, dirty)
    /\ UNCHANGED <<envVars, clusterInfo, results, passVars, auxVars>>

\* what the handler of key k can return now: processEventTriggerForCluster
\* returns nil when the trigger is gone or being deleted,
\* undeployEventTriggerResourcesFromCluster returns nil when it is gone
Outcomes(k) ==
    IF trigger = "gone" \/ (trigger = "deleting" /\ ~k[2]) \/ frozen
    THEN {"ok"}
    ELSE {"ok", "err"}

\* the handler returns and its result is stored; a key marked dirty meanwhile
\* is queued again
WorkerDone(k, o) ==
    /\ InSeq(k, inProgress)
    /\ o \in Outcomes(k)
    /\ inProgress' = RemoveFirst(k, inProgress)
    /\ results' = [results EXCEPT ![k] = o]
    /\ jobQueue' = IF InSeq(k, dirty) THEN Append(jobQueue, k) ELSE jobQueue
    /\ UNCHANGED <<envVars, clusterInfo, dirty, passVars, auxVars>>

Reconciler ==
    \/ StartReconcile
    \/ \E lookupFails \in BOOLEAN : deployEventTriggerStep(lookupFails)
    \/ \E lookupFails \in BOOLEAN : undeployEventTriggerStep(lookupFails)
    \/ processEventTriggerBody
    \/ removeEventTriggerBody
    \/ removeEventTriggerSubmit
    \/ Close

Workers ==
    \/ WorkerTake
    \/ \E k \in Keys, o \in {"ok", "err"} : WorkerDone(k, o)

Environment ==
    \/ \E c \in Clusters : ClusterStartsMatching(c)
    \/ \E c \in Clusters : ClusterStopsMatching(c)
    \/ \E h \in Hashes : ConfigChange(h)
    \/ \E c \in Clusters : ClusterReadiness(c)
    \/ DeleteTrigger
    \/ \E c \in Clusters : PeerUpdate(c)
    \/ Restart

Next == Reconciler \/ Workers \/ Environment

\* ------------------------------------------ EventSources of a managed cluster
Triggers == {"t1", "t2"}
ESNames == {"es1", "es2"}
ESOrder == <<"es1", "es2">>      \* the order in which remoteClient.List answers

NoEventSource == [exists |-> FALSE, owners |-> {}]

\* The API calls that fail during one run of a handler, per EventSource:
\* "write" is the Create, Update or Delete of the EventSource, "reports" the
\* List or Delete of its EventReports.
Failures == [ESNames -> {"none", "write", "reports"}]

NoESRet == [trigger |-> "<nil>", cleanup |-> FALSE, err |-> NilErr,
            updated |-> {}, deleted |-> {}]

ESInit ==
    /\ esTrigger = [t \in Triggers |-> "live"]
    /\ eventSourceName = [t \in Triggers |-> "es1"]
    /\ mgmtEventSources = {}
    /\ eventSources = [e \in ESNames |-> NoEventSource]
    /\ eventReports = {}
    /\ esRet = NoESRet

\* the managed cluster's EventSources and the EventReports pulled from it
ClusterState == [es |-> eventSources, reports |-> eventReports]

\* createOrUpdateEventSource: the trigger becomes an owner of the EventSource
createOrUpdateEventSource(es, t, e) ==
    [es EXCEPT ![e] = [exists |-> TRUE, owners |-> es[e].owners \cup {t}]]

\* deployEventSource
deployEventSource(cl, t, f) ==
    LET e == eventSourceName[t]
    IN  IF e \notin mgmtEventSources THEN [cl |-> cl, err |-> NilErr]
        ELSE IF f[e] = "write" THEN [cl |-> cl, err |-> "create/update failed"]
        ELSE [cl |-> [cl EXCEPT !.es = createOrUpdateEventSource(cl.es, t, e)],
              err |-> NilErr]

\* the EventSource is deleted although other triggers still own it
removeStaleEventSource_DeleteShared(cl, e, t, removeAll, f) ==
    IF ~cl.es[e].exists THEN [cl |-> cl, flow |-> "continue"]
    ELSE IF ~removeAll /\ esTrigger[t] # "deleting" /\ e = eventSourceName[t]
    THEN [cl |-> cl, flow |-> "continue"]
    ELSE IF t \notin cl.es[e].owners THEN [cl |-> cl, flow |-> "continue"]
    ELSE [cl |-> [cl EXCEPT !.es[e] = NoEventSource, !.reports = @ \ {e}],
          flow |-> "continue"]

\* the EventSource the trigger references is swept like the others
removeStaleEventSource_NoReferenceCheck(cl, e, t, removeAll, f) ==
    LET es == cl.es[e]
        left == es.owners \ {t}
    IN  IF ~es.exists THEN [cl |-> cl, flow |-> "continue"]
        ELSE IF t \notin es.owners THEN [cl |-> cl, flow |-> "continue"]
        ELSE IF left # {}
        THEN IF f[e] = "write" THEN [cl |-> cl, flow |-> "return err"]
             ELSE [cl |-> [cl EXCEPT !.es[e].owners = left], flow |-> "continue"]
        ELSE IF f[e] = "reports" THEN [cl |-> cl, flow |-> "return nil"]
        ELSE LET cl1 == [cl EXCEPT !.reports = @ \ {e}]
             IN  IF f[e] = "write" THEN [cl |-> cl1, flow |-> "return err"]
                 ELSE [cl |-> [cl1 EXCEPT !.es[e] = NoEventSource],
                       flow |-> "continue"]

\* removeStaleEventSources, lines 757-800: one iteration of the loop; flow is
\* "continue", "return nil" or "return err"
removeStaleEventSource(cl, e, t, removeAll, f) ==
    LET es == cl.es[e]
        left == es.owners \ {t}
    IN  IF ~es.exists THEN [cl |-> cl, flow |-> "continue"]
        ELSE IF ~removeAll /\ esTrigger[t] # "deleting" /\ e = eventSourceName[t]
        THEN [cl |-> cl, flow |-> "continue"]
        ELSE IF t \notin es.owners THEN [cl |-> cl, flow |-> "continue"]
        ELSE IF left # {}
        THEN IF f[e] = "write" THEN [cl |-> cl, flow |-> "return err"]
             ELSE [cl |-> [cl EXCEPT !.es[e].owners = left], flow |-> "continue"]
        ELSE IF f[e] = "reports" THEN [cl |-> cl, flow |-> "return nil"]
        ELSE LET cl1 == [cl EXCEPT !.reports = @ \ {e}]
             IN  IF f[e] = "write" THEN [cl |-> cl1, flow |-> "return err"]
                 ELSE [cl |-> [cl1 EXCEPT !.es[e] = NoEventSource],
                       flow |-> "continue"]

RECURSIVE removeStaleEventSourcesFrom(_, _, _, _, _)
removeStaleEventSourcesFrom(cl, i, t, removeAll, f) ==
    IF i > Len(ESOrder) THEN [cl |-> cl, err |-> NilErr]
    ELSE LET r == removeStaleEventSource(cl, ESOrder[i], t, removeAll, f)
         IN  IF r.flow = "continue"
             THEN removeStaleEventSourcesFrom(r.cl, i + 1, t, removeAll, f)
             ELSE [cl |-> r.cl,
                   err |-> IF r.flow = "return nil" THEN NilErr
                           ELSE "EventSource write failed"]

\* removeStaleEventSources
removeStaleEventSources(cl, t, removeAll, f) ==
    removeStaleEventSourcesFrom(cl, 1, t, removeAll, f)

\* the handler has returned r: the cluster is as r.cl says
HandlerReturns(t, cleanup, r) ==
    /\ eventSources' = r.cl.es
    /\ eventReports' = r.cl.reports
    /\ esRet' = [trigger |-> t, cleanup |-> cleanup, err |-> r.err,
                 updated |-> {e \in ESNames : /\ r.cl.es[e].exists
                                              /\ t \in eventSources[e].owners
                                              /\ t \notin r.cl.es[e].owners},
                 deleted |-> {e \in ESNames : /\ eventSources[e].exists
                                              /\ ~r.cl.es[e].exists}]
    /\ UNCHANGED <<esTrigger, eventSourceName, mgmtEventSources, smVars, hashVars,
                   mxVars, extVars>>

ESFrame == UNCHANGED <<eventSources, esRet, notES>>

\* spec.eventSourceName of a trigger is edited
ChangeEventSourceName(t, e) ==
    /\ esTrigger[t] = "live"
    /\ e # eventSourceName[t]
    /\ eventSourceName' = [eventSourceName EXCEPT ![t] = e]
    /\ UNCHANGED <<esTrigger, mgmtEventSources, eventReports>>
    /\ ESFrame

\* a trigger is deleted: first marked, then gone once its finalizer is removed
DeleteEventTrigger(t) ==
    /\ esTrigger[t] # "gone"
    /\ esTrigger' = [esTrigger EXCEPT ![t] = IF @ = "live" THEN "deleting" ELSE "gone"]
    /\ UNCHANGED <<eventSourceName, mgmtEventSources, eventReports>>
    /\ ESFrame

\* an EventSource is created in, or deleted from, the management cluster
MgmtEventSourceChange(e) ==
    /\ mgmtEventSources' = IF e \in mgmtEventSources THEN mgmtEventSources \ {e}
                           ELSE mgmtEventSources \cup {e}
    /\ UNCHANGED <<esTrigger, eventSourceName, eventReports>>
    /\ ESFrame

\* an EventReport of a deployed EventSource is pulled from the managed cluster
EventReportPulled(e) ==
    /\ eventSources[e].exists
    /\ e \notin eventReports
    /\ eventReports' = eventReports \cup {e}
    /\ UNCHANGED <<esTrigger, eventSourceName, mgmtEventSources>>
    /\ ESFrame

\* --------------------------------------------- expansion into ClusterProfiles
\* One trigger and one cluster, so the trigger and cluster labels are the same
\* on every derived object and are left out.  A referenced Secret takes the
\* path of a referenced ConfigMap (getSecretName, createSecret, updateSecret,
\* removeSecrets); the ConfigMaps stand for both.
Names == 1..MaxNames             \* "sveltos-" followed by a random string

Absent == "<absent>"             \* the label is not set

\* resources of the managed cluster an EventReport can list; the second one
\* is cluster-scoped
Resources ==
    { [namespace |-> "n", name |-> "a"],
      [namespace |-> "", name |-> "a"] }

\* spec.matchingResources: at most MaxResources resources, none listed twice
MatchingResources ==
    { q \in UNION { [1..n -> Resources] : n \in 0..MaxResources } :
         \A i, j \in 1..Len(q) : i # j => q[i] # q[j] }

EventReports ==
    [name : {"er1", "er2"}, deleting : BOOLEAN, matchingResources : MatchingResources]

NoCPRet == [kind |-> "<nil>", err |-> NilErr]

CPInit ==
    /\ oneForEvent = TRUE
    /\ policyRefs = {"p1"}
    /\ eventReport = [name |-> "er1", deleting |-> FALSE, matchingResources |-> <<>>]
    /\ clusterProfiles = {}
    /\ configMaps = {}
    /\ cpPc = "idle"
    /\ cpIdx = 1
    /\ current = <<>>
    /\ cpStart = [cps |-> {}, cms |-> {}]
    /\ again = FALSE
    /\ edits = 0
    /\ cpRet = NoCPRet

\* getInstantiatedObjectLabels; er is the name of the EventReport, or Absent
\* when the caller passes a nil EventReport
getInstantiatedObjectLabels(er) ==
    [eventreport |-> er, resourcenamespace |-> Absent, resourcename |-> Absent,
     refname |-> Absent]

\* lines 933-939: the labels of the expansion of one resource
getInstantiatedObjectLabelsForResource(labels, r) ==
    [labels EXCEPT !.resourcename = r.name,
                   !.resourcenamespace = IF r.namespace # "" THEN r.namespace
                                         ELSE Absent]

\* client.MatchingLabels: every label of the selector is on the object
MatchingLabels(sel, labels) ==
    \A k \in DOMAIN sel : sel[k] = Absent \/ sel[k] = labels[k]

List(objects, sel) == {o \in objects : MatchingLabels(sel, o.labels)}

NamesOf(objects) == {o.name : o \in objects}

\* getInstantiatedObjectName: "create" under the random name, "reuse" the name
\* of the only match, or "error"
getInstantiatedObjectName(objects, random) ==
    IF objects = {} THEN [name |-> random, create |-> TRUE, err |-> NilErr]
    ELSE IF Cardinality(objects) = 1
    THEN [name |-> (CHOOSE o \in objects : TRUE).name, create |-> FALSE, err |-> NilErr]
    ELSE [name |-> 0, create |-> FALSE, err |-> "more than one resource"]

\* instantiateReferencedPolicy for the templated ConfigMap ref: the ConfigMaps
\* afterwards and the name of the instantiated one; labels is the map the
\* caller shares
instantiateReferencedPolicy(cms, ref, labels, data, random) ==
    LET n == getInstantiatedObjectName(List(cms, labels), random)
        cm == [name |-> n.name, labels |-> labels, content |-> data]
    IN  IF n.err # NilErr THEN [cms |-> cms, name |-> 0, err |-> n.err]
        ELSE IF n.create
        THEN IF n.name \in NamesOf(cms)
             THEN [cms |-> cms, name |-> 0, err |-> "already exists"]
             ELSE [cms |-> cms \cup {cm}, name |-> n.name, err |-> NilErr]
        ELSE [cms |-> {o \in cms : o.name # n.name} \cup {cm}, name |-> n.name,
              err |-> NilErr]

\* updateClusterProfileSpec: only the spec of the ClusterProfile is replaced
updateClusterProfileSpec(cps, name, spec) ==
    {IF o.name = name THEN [o EXCEPT !.spec = spec] ELSE o : o \in cps}

\* instantiateClusterProfileForResource / instantiateOneClusterProfilePerAllResource
\* from the lookup of the name on: data is what the templates are run on,
\* labels the identity labels of the expansion
instantiateClusterProfile(cps, cms, labels, data, randomCP, randomCM) ==
    LET n == getInstantiatedObjectName(List(cps, labels), randomCP)
        templated == policyRefs # {}
        ref == CHOOSE r \in policyRefs : TRUE
        \* the label map after instantiateReferencedPolicies has run
        labels1 == IF templated THEN [labels EXCEPT !.refname = ref] ELSE labels
        p == IF templated
             THEN instantiateReferencedPolicy(cms, ref, labels1, data, randomCM)
             ELSE [cms |-> cms, name |-> 0, err |-> NilErr]
        spec == [data |-> data, policyRefs |-> IF templated THEN {p.name} ELSE {}]
        cp == [name |-> n.name, labels |-> labels1, spec |-> spec]
        failed(cs, e) == [cps |-> cps, cms |-> cs, cp |-> cp, err |-> e]
    IN  IF n.err # NilErr THEN failed(cms, n.err)
        ELSE IF p.err # NilErr THEN failed(cms, p.err)
        ELSE IF n.create
        THEN IF n.name \in NamesOf(cps) THEN failed(p.cms, "already exists")
             ELSE [cps |-> cps \cup {cp}, cms |-> p.cms, cp |-> cp, err |-> NilErr]
        ELSE [cps |-> updateClusterProfileSpec(cps, n.name, spec), cms |-> p.cms,
              cp |-> cp, err |-> NilErr]

\* removeClusterProfiles: the ClusterProfiles left
removeClusterProfiles(cps, er, cur) ==
    cps \ {o \in List(cps, getInstantiatedObjectLabels(er)) :
              \A i \in 1..Len(cur) : cur[i].name # o.name}

\* removeConfigMaps: the ConfigMaps left; the policyRefs are those of cur
removeConfigMaps(cms, er, cur) ==
    cms \ {o \in List(cms, getInstantiatedObjectLabels(er)) :
              \A i \in 1..Len(cur) : o.name \notin cur[i].spec.policyRefs}

CPEnvFrame ==
    /\ cpPc = "idle"
    /\ edits < MaxEdits
    /\ edits' = edits + 1
    /\ again' = FALSE
    /\ UNCHANGED <<clusterProfiles, configMaps, cpPc, cpIdx, current, cpStart, cpRet,
                notCP>>

\* a run of updateClusterProfiles ends with error err
Returns(kind, err) ==
    /\ cpPc' = "idle"
    /\ cpIdx' = 1
    /\ current' = <<>>
    /\ cpStart' = [cps |-> {}, cms |-> {}]
    /\ cpRet' = [kind |-> kind, err |-> err]
    /\ again' = (kind = "update" /\ err = NilErr)

\* updateClusterProfiles is called for the trigger and its EventReport
updateClusterProfiles ==
    /\ cpPc = "idle"
    /\ cpPc' = IF eventReport.deleting \/ eventReport.matchingResources = <<>>
               THEN "sweep" ELSE "expand"
    /\ cpIdx' = 1
    /\ current' = <<>>
    /\ cpStart' = [cps |-> clusterProfiles, cms |-> configMaps]
    /\ cpRet' = NoCPRet
    /\ UNCHANGED <<oneForEvent, policyRefs, eventReport, clusterProfiles, configMaps,
                   again, edits, notCP>>

\* one ClusterProfile is instantiated: for the next matching resource when
\* oneForEvent is set, for all of them otherwise
Instantiate(randomCP, randomCM) ==
    /\ cpPc = "expand"
    /\ LET base == getInstantiatedObjectLabels(eventReport.name)
           r == eventReport.matchingResources[cpIdx]
           x == IF oneForEvent
                THEN instantiateClusterProfile(clusterProfiles, configMaps,
                        getInstantiatedObjectLabelsForResource(base, r), <<r>>,
                        randomCP, randomCM)
                ELSE instantiateClusterProfile(clusterProfiles, configMaps, base,
                        eventReport.matchingResources, randomCP, randomCM)
           last == ~oneForEvent \/ cpIdx = Len(eventReport.matchingResources)
       IN  /\ clusterProfiles' = x.cps
           /\ configMaps' = x.cms
           /\ IF x.err # NilErr
              THEN Returns("update", x.err)
              ELSE /\ current' = Append(current, [name |-> x.cp.name, spec |-> x.cp.spec])
                   /\ cpPc' = IF last THEN "sweep" ELSE "expand"
                   /\ cpIdx' = cpIdx + 1
                   /\ UNCHANGED <<cpStart, again, cpRet>>
    /\ UNCHANGED <<oneForEvent, policyRefs, eventReport, edits, notCP>>

\* removeInstantiatedResources, called by updateClusterProfiles
removeInstantiatedResources ==
    /\ cpPc = "sweep"
    /\ clusterProfiles' = removeClusterProfiles(clusterProfiles, eventReport.name, current)
    /\ configMaps' = removeConfigMaps(configMaps, eventReport.name, current)
    /\ Returns("update", NilErr)
    /\ UNCHANGED <<oneForEvent, policyRefs, eventReport, edits, notCP>>

\* removeInstantiatedResources, called by the cleanup handler with no
\* EventReport and no ClusterProfile to keep
removeAllInstantiatedResources ==
    /\ cpPc = "idle"
    /\ clusterProfiles # {} \/ configMaps # {}
    /\ clusterProfiles' = removeClusterProfiles(clusterProfiles, Absent, <<>>)
    /\ configMaps' = removeConfigMaps(configMaps, Absent, <<>>)
    /\ Returns("cleanup", NilErr)
    /\ UNCHANGED <<oneForEvent, policyRefs, eventReport, edits, notCP>>

\* the EventReport changes, or the trigger references another EventSource
\* and with it the EventReport of another name
EventReportChange(er) ==
    /\ er # eventReport
    /\ eventReport' = er
    /\ UNCHANGED <<oneForEvent, policyRefs>>
    /\ CPEnvFrame

\* spec.oneForEvent is edited
OneForEventChange ==
    /\ oneForEvent' = ~oneForEvent
    /\ UNCHANGED <<policyRefs, eventReport>>
    /\ CPEnvFrame

\* spec.policyRefs is edited
PolicyRefsChange(refs) ==
    /\ refs # policyRefs
    /\ policyRefs' = refs
    /\ UNCHANGED <<oneForEvent, eventReport>>
    /\ CPEnvFrame

NextCP ==
    \/ updateClusterProfiles
    \/ \E randomCP \in Names, randomCM \in Names : Instantiate(randomCP, randomCM)
    \/ removeInstantiatedResources
    \/ removeAllInstantiatedResources
    \/ \E er \in EventReports : EventReportChange(er)
    \/ OneForEventChange
    \/ \E refs \in {{}, {"p1"}} : PolicyRefsChange(refs)

\* ------------------------------------------------- the handlers of the keys
\* the trigger whose derived objects clusterProfiles and configMaps hold
CPTrigger == "t1"

\* what a handler leaves alone of the expansion and of its objects
HandlerCPFrame ==
    UNCHANGED <<oneForEvent, policyRefs, eventReport, cpPc, cpIdx, current, cpStart,
                again, edits, cpRet>>

\* the deploy handler also clears the derived objects
processEventTriggerForCluster_Sweeps(t, f) ==
    /\ HandlerReturns(t, FALSE,
          IF esTrigger[t] # "live" THEN [cl |-> ClusterState, err |-> NilErr]
          ELSE LET d == deployEventSource(ClusterState, t, f)
               IN  IF d.err # NilErr THEN d
                   ELSE removeStaleEventSources(d.cl, t, FALSE, f))
    /\ clusterProfiles' = IF t = CPTrigger THEN {} ELSE clusterProfiles
    /\ configMaps' = IF t = CPTrigger THEN {} ELSE configMaps
    /\ HandlerCPFrame

\* the deploy handler does not look at the deletion of the trigger
processEventTriggerForCluster_IgnoresDeletion(t, f) ==
    /\ HandlerReturns(t, FALSE,
          LET d == deployEventSource(ClusterState, t, f)
          IN  IF d.err # NilErr THEN d
              ELSE removeStaleEventSources(d.cl, t, FALSE, f))
    /\ UNCHANGED <<clusterProfiles, configMaps>>
    /\ HandlerCPFrame

\* processEventTriggerForCluster, the handler of the deploy key
processEventTriggerForCluster(t, f) ==
    /\ HandlerReturns(t, FALSE,
          IF esTrigger[t] # "live" THEN [cl |-> ClusterState, err |-> NilErr]
          ELSE LET d == deployEventSource(ClusterState, t, f)
               IN  IF d.err # NilErr THEN d
                   ELSE removeStaleEventSources(d.cl, t, FALSE, f))
    /\ UNCHANGED <<clusterProfiles, configMaps>>
    /\ HandlerCPFrame

\* undeployEventTriggerResourcesFromCluster, the handler of the cleanup key:
\* removeStaleEventSources with removeAll set and, when it returns nil,
\* removeInstantiatedResources with no EventReport and no ClusterProfile
undeployEventTriggerResourcesFromCluster(t, f) ==
    LET r == IF esTrigger[t] = "gone" THEN [cl |-> ClusterState, err |-> NilErr]
             ELSE removeStaleEventSources(ClusterState, t, TRUE, f)
        clears == esTrigger[t] # "gone" /\ r.err = NilErr /\ t = CPTrigger
    IN  /\ HandlerReturns(t, TRUE, r)
        /\ clusterProfiles' = IF clears
                              THEN removeClusterProfiles(clusterProfiles, Absent, <<>>)
                              ELSE clusterProfiles
        /\ configMaps' = IF clears THEN removeConfigMaps(configMaps, Absent, <<>>)
                         ELSE configMaps
        /\ HandlerCPFrame

NextES ==
    \/ \E t \in Triggers, f \in Failures : processEventTriggerForCluster(t, f)
    \/ \E t \in Triggers, f \in Failures : undeployEventTriggerResourcesFromCluster(t, f)
    \/ \E t \in Triggers, e \in ESNames : ChangeEventSourceName(t, e)
    \/ \E t \in Triggers : DeleteEventTrigger(t)
    \/ \E e \in ESNames : MgmtEventSourceChange(e)
    \/ \E e \in ESNames : EventReportPulled(e)

\* the handlers, the expansion and the changes they react to
\* only the first EventSource is deployed here: the calls on it may fail
FailuresOfFirst == {f \in Failures : \A i \in 2..Len(ESOrder) : f[ESOrder[i]] = "none"}

NextHandlers ==
    \/ \E t \in Triggers, f \in FailuresOfFirst : processEventTriggerForCluster(t, f)
    \/ \E t \in Triggers, f \in FailuresOfFirst :
          undeployEventTriggerResourcesFromCluster(t, f)
    \/ DeleteEventTrigger(CPTrigger)
    \/ MgmtEventSourceChange(ESOrder[1])
    \/ updateClusterProfiles
    \/ \E randomCP \in Names, randomCM \in Names : Instantiate(randomCP, randomCM)
    \/ removeInstantiatedResources
    \/ \E er \in {x \in EventReports : ~x.deleting /\ Len(x.matchingResources) = 1} :
          EventReportChange(er)

\* ----------------------------------------------------------- eventTriggerHash
\* A Go map is written as the sequence of its entries in the order they were
\* inserted; the keys are numbered in their sort order.
MapKeys == 1..MaxKeys

GoMaps ==
    { q \in UNION { [1..n -> [key : MapKeys, value : {"v"}]] : n \in 0..MaxKeys } :
         \A i, j \in 1..Len(q) : i # j => q[i].key # q[j].key }

Entries(mp) == {mp[i] : i \in 1..Len(mp)}

\* render.AsCode of a map: the entries in the order of their keys
AsCodeMap(mp) ==
    [i \in 1..Len(mp) |->
        CHOOSE e \in Entries(mp) :
            Cardinality({f \in Entries(mp) : f.key < e.key}) = i - 1]

\* the EventTrigger as a replica holds it
EventTriggerObjects ==
    [spec : [tier : {50, 100}], labels : GoMaps, status : {"<none>", "Provisioned"}]

\* what fetchReferencedResources returns: here no resource or one
Fetched ==
    {<<>>} \cup {<<r>> : r \in [kind : {"ConfigMap", "EventSource"}, body : GoMaps]}

HashInputs == [e : EventTriggerObjects, resources : Fetched]

\* sha256 of the text, taken to be free of collisions
sha256(config) == <<"sha256", config>>

\* eventTriggerHash rendering the whole object, status included, where lines
\* 293-294 render e.Spec and e.Labels
eventTriggerHash_WholeObject(in) ==
    sha256(<<in.e.spec.tier, AsCodeMap(in.e.labels), in.e.status>>
           \o [i \in 1..Len(in.resources) |-> AsCodeMap(in.resources[i].body)])

\* eventTriggerHash, lines 293-313
eventTriggerHash(in) ==
    sha256(<<in.e.spec.tier, AsCodeMap(in.e.labels)>>
           \o [i \in 1..Len(in.resources) |-> AsCodeMap(in.resources[i].body)])

\* the map mp, filled in any order
Orders(mp) == {q \in GoMaps : Entries(q) = Entries(mp)}

\* the inputs a as another replica can hold them: the same spec, labels and
\* resource bodies, the maps filled in any order, any status
SameInputs(a) ==
    { [e |-> [spec |-> a.e.spec, labels |-> l, status |-> st], resources |-> rs] :
         l \in Orders(a.e.labels),
         st \in {"<none>", "Provisioned"},
         rs \in IF a.resources = <<>> THEN {<<>>}
                ELSE {<<[kind |-> a.resources[1].kind, body |-> d]>> :
                         d \in Orders(a.resources[1].body)} }

\* no call has returned yet
NoDigest == [done |-> FALSE, hash |-> <<>>, err |-> NilErr]

HashInit ==
    /\ hashIn = [i \in 1..2 |->
                   [e |-> [spec |-> [tier |-> 100], labels |-> <<>>, status |-> "<none>"],
                    resources |-> <<>>]]
    /\ hashOut = [i \in 1..2 |-> NoDigest]

\* the two replicas read the trigger and the resources it references
ReadInputs(a, b) ==
    /\ hashIn # <<a, b>>
    /\ hashIn' = <<a, b>>
    /\ hashOut' = [i \in 1..2 |-> NoDigest]
    /\ UNCHANGED <<smVars, esVars, cpVars, mxVars, extVars>>

\* replica i calls eventTriggerHash; fetchReferencedResources can fail
EvaluateHash(i, fails) ==
    /\ hashOut[i] = NoDigest
    /\ hashOut' = [hashOut EXCEPT ![i] =
                      IF fails THEN [done |-> TRUE, hash |-> <<>>, err |-> "fetch failed"]
                      ELSE [done |-> TRUE, hash |-> eventTriggerHash(hashIn[i]),
                            err |-> NilErr]]
    /\ UNCHANGED <<hashIn, smVars, esVars, cpVars, mxVars, extVars>>

NextHash ==
    \/ \E a \in HashInputs : \E b \in SameInputs(a) : ReadInputs(a, b)
    \/ \E i \in 1..2, fails \in BOOLEAN : EvaluateHash(i, fails)

\* -------------------------------------------------------------- the matcher
\* A sourceSelector is the value it asks of the one label of a cluster;
\* NoLabels is a cluster without the label.
Selectors == {"prod", "qa"}
NoLabels == "<none>"
NoSelector == "<absent>"     \* the trigger is not in r.EventTriggers
References == {"cm1"}

\* the items of a set in any order: Set.Items() and the range over a Go map
Items(S) ==
    { q \in [1..Cardinality(S) -> S] : \A i, j \in 1..Cardinality(S) : q[i] = q[j] => i = j }

\* parsedSelector.Matches(labels)
Matches(selector, labels) == selector = labels

\* the second loop of requeueEventTriggerForCluster / ...ForMachine: the
\* triggers of r.EventTriggers whose selector matches the labels
NowMatching(labels) ==
    {t \in Triggers : EventTriggers[t] # NoSelector /\ Matches(EventTriggers[t], labels)}

NoCall == [kind |-> "<none>", key |-> "<none>"]

MatcherInit ==
    /\ ClusterMap = [c \in Clusters |-> {}]
    /\ EventSourceMap = [e \in ESNames |-> {}]
    /\ ReferenceMap = [r \in References |-> {}]
    /\ EventTriggers = [t \in Triggers |-> NoSelector]
    /\ ClusterLabels = [c \in Clusters |-> NoLabels]
    /\ lastCall = NoCall
    /\ requests = <<>>

MatcherFrame == UNCHANGED <<smVars, esVars, cpVars, hashVars, extVars>>

\* requeueEventTriggerForCluster without the loop of lines 140-152
ClusterRequests_TrackedOnly(consumers, matching) == consumers

\* requeueEventTriggerForCluster, lines 125-154: the triggers that tracked the
\* cluster, then those whose selector matches its labels
ClusterRequests(consumers, matching) == consumers \o matching

\* requeueEventTriggerForCluster(o): o is cluster c with the given labels
requeueEventTriggerForCluster(c, labels) ==
    /\ ClusterLabels' = [ClusterLabels EXCEPT ![c] = labels]
    /\ \E consumers \in Items(ClusterMap[c]), matching \in Items(NowMatching(labels)) :
          requests' = ClusterRequests(consumers, matching)
    /\ lastCall' = [kind |-> "cluster", key |-> c]
    /\ UNCHANGED <<ClusterMap, EventSourceMap, ReferenceMap, EventTriggers>>
    /\ MatcherFrame

\* requeueEventTriggerForMachine(o): o is a machine of cluster c
requeueEventTriggerForMachine(c) ==
    /\ \E consumers \in Items(ClusterMap[c]),
          matching \in Items(IF ClusterLabels[c] # NoLabels
                             THEN NowMatching(ClusterLabels[c]) ELSE {}) :
          requests' = consumers \o matching
    /\ lastCall' = [kind |-> "machine", key |-> c]
    /\ UNCHANGED <<ClusterMap, EventSourceMap, ReferenceMap, EventTriggers, ClusterLabels>>
    /\ MatcherFrame

\* requeueEventTriggerForEventReport / requeueEventTriggerForEventSource
requeueEventTriggerForEventSource(e) ==
    /\ requests' \in Items(EventSourceMap[e])
    /\ lastCall' = [kind |-> "eventSource", key |-> e]
    /\ UNCHANGED <<ClusterMap, EventSourceMap, ReferenceMap, EventTriggers, ClusterLabels>>
    /\ MatcherFrame

\* requeueEventTriggerForReference
requeueEventTriggerForReference(r) ==
    /\ requests' \in Items(ReferenceMap[r])
    /\ lastCall' = [kind |-> "reference", key |-> r]
    /\ UNCHANGED <<ClusterMap, EventSourceMap, ReferenceMap, EventTriggers, ClusterLabels>>
    /\ MatcherFrame

\* The reconcile of trigger t refreshes its membership in the index: its
\* selector, the clusters it matches, its EventSource, its references.
IndexRefresh(t, selector, tracked, e, refs) ==
    /\ EventTriggers' = [EventTriggers EXCEPT ![t] = selector]
    /\ ClusterMap' = [c \in Clusters |->
                        IF c \in tracked THEN ClusterMap[c] \cup {t} ELSE ClusterMap[c] \ {t}]
    /\ EventSourceMap' = [x \in ESNames |->
                        IF x = e THEN EventSourceMap[x] \cup {t} ELSE EventSourceMap[x] \ {t}]
    /\ ReferenceMap' = [r \in References |->
                        IF r \in refs THEN ReferenceMap[r] \cup {t} ELSE ReferenceMap[r] \ {t}]
    /\ <<EventTriggers', ClusterMap', EventSourceMap', ReferenceMap'>>
          # <<EventTriggers, ClusterMap, EventSourceMap, ReferenceMap>>
    /\ lastCall' = NoCall
    /\ requests' = <<>>
    /\ UNCHANGED ClusterLabels
    /\ MatcherFrame

NextMatcher ==
    \/ \E c \in Clusters, labels \in Selectors \cup {NoLabels} :
          requeueEventTriggerForCluster(c, labels)
    \/ \E c \in Clusters : requeueEventTriggerForMachine(c)
    \/ \E e \in ESNames : requeueEventTriggerForEventSource(e)
    \/ \E r \in References : requeueEventTriggerForReference(r)
    \/ \E t \in Triggers, selector \in Selectors, tracked \in SUBSET Clusters,
          e \in ESNames, refs \in SUBSET References :
          IndexRefresh(t, selector, tracked, e, refs)

\* ------------------------------------------------------------------ valuesFrom
\* The ConfigMaps a valuesFrom entry can name, and what the Get of one finds:
\* no object, an object without the template annotation, one with it, or an
\* error of the API server.
VFNames == {"v1", "v2"}
VFSourceStates == {"missing", "plain", "template", "unreadable"}

\* An entry of valuesFrom names a source and, once instantiateValuesFrom has
\* redirected it, the derived ConfigMap of ReportNamespace of name copy;
\* copy is NoCopy while namespace and name are those of the source.
NoCopy == 0
ValueFrom(n) == [source |-> n, copy |-> NoCopy]

ValuesFromLists ==
    UNION { [1..n -> {ValueFrom(v) : v \in VFNames}] : n \in 0..MaxValuesFrom }

NoVFRet == [called |-> FALSE, valuesFrom |-> <<>>, labels |-> <<>>, err |-> NilErr,
            before |-> {}]

VFInit ==
    /\ vfSources = [n \in VFNames |-> "missing"]
    /\ vfValuesFrom = <<>>
    /\ vfConfigMaps = {}
    /\ vfRet = NoVFRet

\* the source without the annotation is instantiated as well
valueFrom_AlwaysCopy(cms, ref, source, labels, data, random) ==
    IF source = "missing"
    THEN [cms |-> cms, ref |-> ref, labels |-> labels, err |-> NilErr]
    ELSE IF source = "unreadable"
    THEN [cms |-> cms, ref |-> ref, labels |-> labels, err |-> "get failed"]
    ELSE LET labels1 == [labels EXCEPT !.refname = ref.source]
             p == instantiateReferencedPolicy(cms, ref.source, labels1, data, random)
         IN  IF p.err # NilErr
             THEN [cms |-> p.cms, ref |-> ref, labels |-> labels1, err |-> p.err]
             ELSE [cms |-> p.cms, ref |-> [ref EXCEPT !.copy = p.name],
                   labels |-> labels1, err |-> NilErr]

\* a source that does not exist is an error
valueFrom_MissingFails(cms, ref, source, labels, data, random) ==
    IF source \in {"missing", "unreadable"}
    THEN [cms |-> cms, ref |-> ref, labels |-> labels, err |-> "get failed"]
    ELSE IF source = "plain"
    THEN [cms |-> cms, ref |-> [ref EXCEPT !.copy = NoCopy], labels |-> labels,
          err |-> NilErr]
    ELSE LET labels1 == [labels EXCEPT !.refname = ref.source]
             p == instantiateReferencedPolicy(cms, ref.source, labels1, data, random)
         IN  IF p.err # NilErr
             THEN [cms |-> p.cms, ref |-> ref, labels |-> labels1, err |-> p.err]
             ELSE [cms |-> p.cms, ref |-> [ref EXCEPT !.copy = p.name],
                   labels |-> labels1, err |-> NilErr]

\* instantiateValuesFrom, lines 1264-1306: one iteration of the loop; labels
\* is the map the caller shares, which instantiateReferencedPolicy writes
valueFrom(cms, ref, source, labels, data, random) ==
    IF source = "missing"
    THEN [cms |-> cms, ref |-> ref, labels |-> labels, err |-> NilErr]
    ELSE IF source = "unreadable"
    THEN [cms |-> cms, ref |-> ref, labels |-> labels, err |-> "get failed"]
    ELSE IF source = "plain"
    THEN [cms |-> cms, ref |-> [ref EXCEPT !.copy = NoCopy], labels |-> labels,
          err |-> NilErr]
    ELSE LET labels1 == [labels EXCEPT !.refname = ref.source]
             p == instantiateReferencedPolicy(cms, ref.source, labels1, data, random)
         IN  IF p.err # NilErr
             THEN [cms |-> p.cms, ref |-> ref, labels |-> labels1, err |-> p.err]
             ELSE [cms |-> p.cms, ref |-> [ref EXCEPT !.copy = p.name],
                   labels |-> labels1, err |-> NilErr]

\* instantiateValuesFrom from entry i on; randoms[i] is the name the random
\* generator returns for entry i
RECURSIVE instantiateValuesFromAt(_, _, _, _, _, _, _)
instantiateValuesFromAt(cms, valuesFrom, i, sources, labels, data, randoms) ==
    IF i > Len(valuesFrom)
    THEN [cms |-> cms, valuesFrom |-> valuesFrom, labels |-> labels, err |-> NilErr]
    ELSE LET r == valueFrom(cms, valuesFrom[i], sources[valuesFrom[i].source], labels,
                            data, randoms[i])
             done == [valuesFrom EXCEPT ![i] = r.ref]
         IN  IF r.err # NilErr
             THEN [cms |-> r.cms, valuesFrom |-> done, labels |-> r.labels, err |-> r.err]
             ELSE instantiateValuesFromAt(r.cms, done, i + 1, sources, r.labels, data,
                                          randoms)

instantiateValuesFrom(cms, valuesFrom, sources, labels, data, randoms) ==
    instantiateValuesFromAt(cms, valuesFrom, 1, sources, labels, data, randoms)

\* the labels of the expansion the chart belongs to (per-all mode)
VFLabels == getInstantiatedObjectLabels("er1")

VFFrame == UNCHANGED <<smVars, esVars, cpVars, hashVars, mxVars, swVars, mcVars>>

\* the trigger's valuesFrom is edited, or a referenced ConfigMap is created,
\* deleted, annotated or made unreadable
ValuesFromChange(sources, valuesFrom) ==
    /\ <<sources, valuesFrom>> # <<vfSources, vfValuesFrom>>
    /\ vfSources' = sources
    /\ vfValuesFrom' = valuesFrom
    /\ vfRet' = NoVFRet
    /\ UNCHANGED vfConfigMaps
    /\ VFFrame

\* instantiateHelmCharts calls instantiateValuesFrom for the chart
instantiateValuesFromCall(randoms) ==
    LET r == instantiateValuesFrom(vfConfigMaps, vfValuesFrom, vfSources, VFLabels,
                                   <<>>, randoms)
    IN  /\ vfConfigMaps' = r.cms
        /\ vfRet' = [called |-> TRUE, valuesFrom |-> r.valuesFrom, labels |-> r.labels,
                     err |-> r.err, before |-> vfConfigMaps]
        /\ UNCHANGED <<vfSources, vfValuesFrom>>
        /\ VFFrame

NextValuesFrom ==
    \/ \E sources \in [VFNames -> VFSourceStates], valuesFrom \in ValuesFromLists :
          ValuesFromChange(sources, valuesFrom)
    \/ \E randoms \in [1..MaxValuesFrom -> Names] : instantiateValuesFromCall(randoms)

\* --------------------------------------------------- removeClusterInfoEntry
\* The trigger on the API server is its resourceVersion and
\* status.clusterInfo, here the clusters that have an entry.
SWCluster == "c1"                \* the cluster whose entry is removed

SWEntry(c) == [cluster |-> c]

SWStatuses ==
    { q \in UNION { [1..n -> {SWEntry(c) : c \in Clusters}] : n \in 0..2 } :
         \A i, j \in 1..Len(q) : i # j => q[i] # q[j] }

NoSWRet == [done |-> FALSE, err |-> NilErr]

SWInit ==
    /\ swObject = [version |-> 1, clusterInfo |-> <<SWEntry(SWCluster)>>]
    /\ swRead = [version |-> 0, clusterInfo |-> <<>>]
    /\ swPc = "idle"
    /\ swAttempts = 0
    /\ swRet = NoSWRet

\* the update is accepted whatever the version of the object sent
StatusUpdate_Blind(obj, sent) ==
    [ok |-> TRUE,
     obj |-> [version |-> obj.version + 1, clusterInfo |-> sent.clusterInfo]]

\* c.Status().Update: accepted only when the object sent carries the
\* resourceVersion the API server holds, otherwise a Conflict
StatusUpdate(obj, sent) ==
    IF sent.version = obj.version
    THEN [ok |-> TRUE,
          obj |-> [version |-> obj.version + 1, clusterInfo |-> sent.clusterInfo]]
    ELSE [ok |-> FALSE, obj |-> obj]

SWFrame == UNCHANGED <<smVars, esVars, cpVars, hashVars, mxVars, vfVars, mcVars>>

SWReturns(err) ==
    /\ swPc' = "idle"
    /\ swRet' = [done |-> TRUE, err |-> err]

\* removeClusterInfoEntry is called
removeClusterInfoEntryCall ==
    /\ swPc = "idle"
    /\ swPc' = "get"
    /\ swAttempts' = 0
    /\ swRet' = NoSWRet
    /\ UNCHANGED <<swObject, swRead>>
    /\ SWFrame

\* lines 608-612 and 621: the Get of an attempt; without an entry of the
\* cluster the attempt returns nil
removeClusterInfoEntryGet(fails) ==
    /\ swPc = "get"
    /\ swAttempts' = swAttempts + 1
    /\ IF fails THEN SWReturns("get failed") /\ UNCHANGED swRead
       ELSE /\ swRead' = swObject
            /\ IF HasEntry(swObject.clusterInfo, SWCluster)
               THEN swPc' = "update" /\ UNCHANGED swRet
               ELSE SWReturns(NilErr)
    /\ UNCHANGED swObject
    /\ SWFrame

\* a conflict is returned at once
removeClusterInfoEntryUpdate_NoRetry ==
    /\ swPc = "update"
    /\ LET sent == [swRead EXCEPT !.clusterInfo = removeClusterInfoEntry(@, SWCluster)]
           u == StatusUpdate(swObject, sent)
       IN  /\ swObject' = u.obj
           /\ IF u.ok THEN SWReturns(NilErr) ELSE SWReturns("conflict")
    /\ UNCHANGED <<swRead, swAttempts>>
    /\ SWFrame

\* lines 614-618 and retry.RetryOnConflict: the Update of an attempt; a
\* Conflict starts the next attempt unless DefaultRetrySteps were made
removeClusterInfoEntryUpdate ==
    /\ swPc = "update"
    /\ LET sent == [swRead EXCEPT !.clusterInfo = removeClusterInfoEntry(@, SWCluster)]
           u == StatusUpdate(swObject, sent)
       IN  /\ swObject' = u.obj
           /\ IF u.ok THEN SWReturns(NilErr)
              ELSE IF swAttempts >= DefaultRetrySteps THEN SWReturns("conflict")
              ELSE swPc' = "get" /\ UNCHANGED swRet
    /\ UNCHANGED <<swRead, swAttempts>>
    /\ SWFrame

\* another writer updates the status of the trigger
OtherWriter(ci) ==
    /\ swObject.version < MaxVersion
    /\ ci # swObject.clusterInfo
    /\ swObject' = [version |-> swObject.version + 1, clusterInfo |-> ci]
    /\ UNCHANGED <<swRead, swPc, swAttempts, swRet>>
    /\ SWFrame

NextStatusWrite ==
    \/ removeClusterInfoEntryCall
    \/ \E fails \in BOOLEAN : removeClusterInfoEntryGet(fails)
    \/ removeClusterInfoEntryUpdate
    \/ \E ci \in SWStatuses : OtherWriter(ci)

\* ------------------------------------------- the sweeps and the other objects
\* The management cluster with the objects of every trigger and cluster: the
\* trigger and cluster labels the expansion section leaves out are kept here,
\* and a ConfigMap has its namespace.  A Secret takes the path of a ConfigMap.
ReportNamespace == "projectsveltos"
MCNamespaces == {ReportNamespace, "default"}
MCNames == {"x1", "x2"}                \* names of derived objects
MCUserNames == {"u1"}                  \* names of the ConfigMaps a user writes
MCEventReports == {"er1", "er2"}

\* getInstantiatedObjectLabels with the trigger and the cluster
getInstantiatedObjectLabelsOf(t, c, er) ==
    [trigger |-> t, cluster |-> c, eventreport |-> er, refname |-> Absent]

\* a ConfigMap without any label of the expansion
NoMCLabels == getInstantiatedObjectLabelsOf(Absent, Absent, Absent)

PolicyRefOf(cm) == [namespace |-> cm.namespace, name |-> cm.name]

NoMCRet == [called |-> FALSE, trigger |-> Absent, cluster |-> Absent,
            eventreport |-> Absent, current |-> {}]

MCInit ==
    /\ mcClusterProfiles = {}
    /\ mcConfigMaps = {}
    /\ mcRet = NoMCRet

\* the sweep lists by trigger only
removeClusterProfilesOf_AnyCluster(cps, t, c, er, cur) ==
    cps \ {o \in List(cps, getInstantiatedObjectLabelsOf(t, Absent, er)) :
              o.name \notin NamesOf(cur)}

\* removeClusterProfiles: the ClusterProfiles left; cur is the slice of the
\* ClusterProfiles the caller keeps
removeClusterProfilesOf(cps, t, c, er, cur) ==
    cps \ {o \in List(cps, getInstantiatedObjectLabelsOf(t, c, er)) :
              o.name \notin NamesOf(cur)}

\* removeInstantiatedResources, lines 1823-1835: the references of the
\* ClusterProfiles kept
policyRefsOf(cur) == UNION {o.spec.policyRefs : o \in cur}

\* the sweep deletes what is not referenced by name, in any namespace
removeConfigMapsOf_AnyNamespace(cms, t, c, er, refs) ==
    cms \ {o \in List(cms, getInstantiatedObjectLabelsOf(t, c, er)) :
              o.name \notin {r.name : r \in refs}}

\* removeConfigMaps: the ConfigMaps left; the List is by labels and in
\* ReportNamespace
removeConfigMapsOf(cms, t, c, er, refs) ==
    cms \ {o \in List(cms, getInstantiatedObjectLabelsOf(t, c, er)) :
              o.namespace = ReportNamespace /\ PolicyRefOf(o) \notin refs}

MCFrame == UNCHANGED <<smVars, esVars, cpVars, hashVars, mxVars, vfVars, swVars>>

\* an expansion of (t, c) for the EventReport er creates a ClusterProfile and
\* the copy of a templated ConfigMap under fresh names; the ClusterProfile
\* references the copy and the ConfigMaps of the user it names directly
ExpansionCreates(t, c, er, n, m, direct) ==
    /\ Cardinality(mcClusterProfiles) < MaxDerived
    /\ n \notin NamesOf(mcClusterProfiles)
    /\ \A o \in mcConfigMaps : o.namespace = ReportNamespace => o.name # m
    /\ LET labels == getInstantiatedObjectLabelsOf(t, c, er)
           cm == [namespace |-> ReportNamespace, name |-> m,
                  labels |-> [labels EXCEPT !.refname = "p1"]]
       IN  /\ mcConfigMaps' = mcConfigMaps \cup {cm}
           /\ mcClusterProfiles' = mcClusterProfiles \cup
                 {[name |-> n, labels |-> [labels EXCEPT !.refname = "p1"],
                   spec |-> [policyRefs |-> {PolicyRefOf(cm)} \cup
                                            {PolicyRefOf(o) : o \in direct}]]}
    /\ UNCHANGED mcRet
    /\ MCFrame

\* a user writes a ConfigMap, without labels or with those of a derived one
UserCreates(ns, name, labels) ==
    /\ Cardinality(mcConfigMaps) < MaxDerived + 2
    /\ \A o \in mcConfigMaps : PolicyRefOf(o) # [namespace |-> ns, name |-> name]
    /\ mcConfigMaps' = mcConfigMaps \cup
          {[namespace |-> ns, name |-> name, labels |-> labels]}
    /\ UNCHANGED <<mcClusterProfiles, mcRet>>
    /\ MCFrame

\* removeInstantiatedResources for (t, c): er is Absent and cur empty when the
\* cleanup handler calls it, and cur holds ClusterProfiles of the EventReport
\* er when updateClusterProfiles does
removeInstantiatedResourcesOf(t, c, er, cur) ==
    /\ er = Absent => cur = {}
    /\ mcClusterProfiles' = removeClusterProfilesOf(mcClusterProfiles, t, c, er, cur)
    /\ mcConfigMaps' = removeConfigMapsOf(mcConfigMaps, t, c, er, policyRefsOf(cur))
    /\ mcRet' = [called |-> TRUE, trigger |-> t, cluster |-> c, eventreport |-> er,
                 current |-> cur]
    /\ MCFrame

NextSweep ==
    \/ \E t \in Triggers, c \in Clusters, er \in MCEventReports, n, m \in MCNames :
          \E direct \in SUBSET {o \in mcConfigMaps : o.labels = NoMCLabels} :
             ExpansionCreates(t, c, er, n, m, direct)
    \/ \E ns \in MCNamespaces, name \in MCUserNames :
          \E labels \in {NoMCLabels} \cup {o.labels : o \in mcConfigMaps} :
             UserCreates(ns, name, labels)
    \/ \E t \in Triggers, c \in Clusters, er \in MCEventReports \cup {Absent} :
          \E cur \in SUBSET List(mcClusterProfiles,
                                 getInstantiatedObjectLabelsOf(t, c, er)) :
             removeInstantiatedResourcesOf(t, c, er, cur)

Init == SMInit /\ ESInit /\ CPInit /\ HashInit /\ MatcherInit /\ VFInit /\ SWInit
        /\ MCInit

Spec == Init /\ [][Next]_vars

\* the handlers at work on one managed cluster
SpecES == Init /\ [][NextES]_vars

\* the expansion and the sweep of the derived objects of one (trigger, cluster)
SpecCP == Init /\ [][NextCP]_vars

\* the handlers together with the expansion
SpecHandlers == Init /\ [][NextHandlers]_vars

\* two replicas evaluate the fingerprint of the same trigger
SpecHash == Init /\ [][NextHash]_vars

\* the matcher calls and the refreshes of the index they read
SpecMatcher == Init /\ [][NextMatcher]_vars

\* the valuesFrom of a chart is resolved
SpecValuesFrom == Init /\ [][NextValuesFrom]_vars

\* removeClusterInfoEntry beside another writer of the status
SpecStatusWrite == Init /\ [][NextStatusWrite]_vars

\* the sweeps among the objects of other triggers, clusters and users
SpecSweep == Init /\ [][NextSweep]_vars

\* the same system, in which the environment may settle for good
NextFair == Next \/ Freeze

\* The controller runs a queued reconcile request and every pass it starts
\* runs to its end; the workers of the pool keep taking jobs and every
\* handler returns.
FairSpec ==
    /\ Init
    /\ [][NextFair]_vars
    /\ WF_vars(requeue /\ StartReconcile)
    /\ WF_vars(Reconciler /\ pc # "idle")
    /\ WF_vars(Workers)


\* ================================================================ claims
Running(c, cleanup) == InSeq(Key(c, cleanup), inProgress)
Pending(c, cleanup) == InSeq(Key(c, cleanup), dirty)

\* the reconciler takes a step of the pass it is in
PassStep == pc # "idle" /\ (pc' # pc \/ idx' # idx)

\* C1: in every reachable state the deploy handler and the cleanup handler of
\* the same (cluster, trigger, feature) are not both running.
C1_NoConcurrentDirections ==
    \A c \in Clusters : ~(Running(c, FALSE) /\ Running(c, TRUE))

\* C1 witness: a pass is about to decide on deploying to a matching cluster
\* while the cleanup handler of that cluster is running.
C1_Witness ==
    /\ pc = "pr_clean"
    /\ Running(Cur, TRUE)

\* C2: a deploy request is never queued while the cleanup handler of the same
\* key runs, nor a cleanup request while the deploy handler runs; a pass that
\* finds the opposite handler running returns the in-progress error, leaves
\* the dispatcher as it is and leaves the ClusterInfo entry as it was.
C2_Step ==
    /\ \A c \in Clusters, cl \in BOOLEAN :
          (~Pending(c, cl) /\ Pending(c, cl)') => ~Running(c, ~cl)
    /\ (pc = "pr_clean" /\ PassStep /\ Running(Cur, TRUE)) =>
          /\ ret' = [cluster |-> Cur, ci |-> NilClusterInfo,
                     err |-> "cleanup in progress"]
          /\ UNCHANGED <<dispVars, resource, clusterInfo>>
    /\ (pc = "rm_clean" /\ PassStep /\ Running(Cur, FALSE)) =>
          /\ ret' = [cluster |-> Cur, ci |-> NilClusterInfo,
                     err |-> "deploy in progress"]
          /\ UNCHANGED <<dispVars, resource, clusterInfo>>

C2_NoSubmitAcrossDirections == [][C2_Step]_vars

\* C2 witness: the trigger is being deleted and the pass has answered
\* "deploy in progress" for a cluster whose deploy handler is running.
C2_Witness ==
    /\ mode = "undeploy"
    /\ ret.err = "deploy in progress"
    /\ Running(ret.cluster, FALSE)

Entry(c) == clusterInfo[EntryIndex(clusterInfo, c)]

\* the premises of convergence hold for cluster c from now on
C3_Stable(c) ==
    /\ frozen
    /\ trigger = "live"
    /\ c \in matchingClusterRefs
    /\ isClusterAShardMatch(c)
    /\ canProceed(c)

C3_Converged(c) ==
    /\ HasEntry(clusterInfo, c)
    /\ Entry(c).status = "Provisioned"
    /\ Entry(c).hash = currentHash

\* C3: once the configuration and the matches have stopped changing and the
\* deploy handler succeeds, the entry of every matching, local, ready cluster
\* eventually is Provisioned with the current fingerprint and stays so; never
\* is more than one deploy of a key in flight.
C3_EventualConvergence ==
    /\ \A c \in Clusters : [](C3_Stable(c) => <>[]C3_Converged(c))
    /\ [](\A c \in Clusters : Count(Key(c, FALSE), inProgress) <= 1)

\* C3, restricted to runs that settle without a failed deploy result in store
C3_ConvergenceWithoutFailure ==
    \A c \in Clusters :
        []((C3_Stable(c) /\ results[Key(c, FALSE)] # "err") => <>[]C3_Converged(c))

\* C3: a deploy is never in flight twice for a key
C3_AtMostOneInFlight ==
    \A c \in Clusters : Count(Key(c, FALSE), inProgress) <= 1

\* the sweep of a pass is over and its return value is decided
SweepDone(m) == pc = "sweep" /\ mode = m /\ idx > Len(resource)

\* deployEventTrigger deferred the cluster: it matches, is local, and is paused
\* or not ready
Deferred(c) == isClusterStillMatching(c) /\ isClusterAShardMatch(c) /\ ~canProceed(c)

\* C4 as stated: deployEventTrigger returns nil only if every entry of
\* status.clusterInfo is Provisioned after the sweep.
C4_SuccessOnlyIfAllProvisioned ==
    (SweepDone("deploy") /\ SweepError = NilErr) =>
        \A i \in 1..Len(resource) : resource[i].status = "Provisioned"

\* C4 amended: deployEventTrigger returns nil only if, after the sweep, every
\* entry of status.clusterInfo is Provisioned or belongs to a matching local
\* cluster that is paused or not ready (whose entry the sweep leaves alone).
C4_SuccessOnlyIfAllProvisionedOrDeferred ==
    (SweepDone("deploy") /\ SweepError = NilErr) =>
        \A i \in 1..Len(resource) :
            \/ resource[i].status = "Provisioned"
            \/ Deferred(resource[i].cluster) /\ resource[i] = updateClusterInfo(before)[i]

\* C4 witness: a sweep over a Provisioned shard-foreign entry and the entry
\* of a paused cluster ends without error.
C4_Witness ==
    /\ SweepDone("deploy")
    /\ SweepError = NilErr
    /\ Len(resource) = 2
    /\ \E i \in 1..2 : Deferred(resource[i].cluster) /\ resource[i].status # "Provisioned"
    /\ \E i \in 1..2 : ~isClusterAShardMatch(resource[i].cluster)

ForeignClusters == Clusters \ LocalClusters

\* all the dispatcher holds for the keys of cluster c
DispView(c) ==
    [cl \in BOOLEAN |->
        <<Count(Key(c, cl), dirty), Count(Key(c, cl), inProgress),
          Count(Key(c, cl), jobQueue), results[Key(c, cl)]>>]

\* C5: a step of the deploy sweep changes nothing the dispatcher holds for a
\* shard-foreign cluster; the step that visits the entry of such a cluster
\* changes neither the dispatcher nor the stored status, and leaves the entry
\* as it is except that a null hash becomes the sentinel once the shard of the
\* cluster has been read (a step whose lookup fails returns with the entry
\* untouched); the steps for the other clusters leave the entry alone.
C5_Step ==
    (mode = "deploy" /\ pc # "return" /\ PassStep /\ idx <= Len(resource)) =>
        \A c \in ForeignClusters :
            /\ DispView(c)' = DispView(c)
            /\ \A i \in 1..Len(resource) :
                  resource[i].cluster = c =>
                     /\ Len(resource') = Len(resource)
                     /\ resource'[i].cluster = c
                     /\ resource'[i].status = resource[i].status
                     /\ resource'[i].failureMessage = resource[i].failureMessage
                     /\ resource'[i].hash =
                           IF i = idx /\ resource[i].hash = NilHash /\ pc' # "return"
                           THEN EmptyHash ELSE resource[i].hash
            /\ Cur = c => UNCHANGED <<dispVars, clusterInfo>>

C5_ShardIsolationDeploy == [][C5_Step]_vars

\* C5 witness: the sweep has gone past a shard-foreign entry that now holds
\* the sentinel, and past one that holds the hash its own replica wrote.
C5_Witness ==
    /\ mode = "deploy"
    /\ pc = "sweep"
    /\ \E i \in 1..Len(resource) :
          /\ i < idx
          /\ resource[i].cluster \in ForeignClusters
          /\ resource[i].hash = EmptyHash
          /\ resource[i].status = "Removed"

\* C6: while the trigger is being deleted, a step of undeployEventTrigger for
\* a shard-foreign cluster changes neither the dispatcher nor the stored
\* status nor the entry, whatever the status of the entry.
C6_Step ==
    (mode = "undeploy" /\ PassStep /\ idx <= Len(resource) /\ Cur \in ForeignClusters)
        => UNCHANGED <<dispVars, clusterInfo, resource>>

C6_ShardIsolationUndeploy == [][C6_Step]_vars

\* C10 premises: cluster c is local and has stopped matching for good
C10_Unmatched(c) ==
    /\ frozen
    /\ trigger = "live"
    /\ isClusterAShardMatch(c)
    /\ ~isClusterStillMatching(c)

\* C10: when a local cluster has left matchingClusterRefs while it has an
\* entry, the cleanup handler of the cluster eventually has completed, and the
\* entry eventually is absent from status.clusterInfo and stays absent.
C10_UnmatchedEntryRemoved ==
    \A c \in Clusters :
        []((C10_Unmatched(c) /\ HasEntry(clusterInfo, c)) =>
              /\ <>(results[Key(c, TRUE)] = "ok")
              /\ <>[](~HasEntry(clusterInfo, c)))

\* C9: whenever a step ends a trigger's ownership of an EventSource of the
\* managed cluster, the EventSource is deleted if and only if the trigger was
\* its only owner, and otherwise it is kept with the other owners unchanged;
\* an EventSource is deleted only when it has exactly one owner.
C9_Step ==
    \A e \in ESNames :
        /\ \A t \in Triggers :
              (/\ eventSources[e].exists
               /\ t \in eventSources[e].owners
               /\ t \notin eventSources'[e].owners) =>
                  /\ (~eventSources'[e].exists) <=> (eventSources[e].owners = {t})
                  /\ eventSources'[e].exists =>
                        eventSources'[e].owners = eventSources[e].owners \ {t}
        /\ (eventSources[e].exists /\ ~eventSources'[e].exists) =>
              Cardinality(eventSources[e].owners) = 1

C9_ReferenceCounting == [][C9_Step]_vars

\* C9 witness: one run of a handler of t1 has taken t1 out of the owners of
\* an EventSource that t2 still owns, and has deleted another one.
C9_Witness ==
    /\ esRet.trigger = "t1"
    /\ esRet.updated # {}
    /\ esRet.deleted # {}
    /\ \A e \in esRet.updated : eventSources[e].owners = {"t2"}


\* a run of updateClusterProfiles returns on this step
RunEnds == cpPc # "idle" /\ cpPc' = "idle"

\* the ConfigMaps the ClusterProfiles of the run reference
Referenced(cur) == UNION {cur[i].spec.policyRefs : i \in 1..Len(cur)}

C7_Step ==
    RunEnds /\ cpRet'.err = NilErr =>
        /\ \A o \in clusterProfiles' : \E i \in 1..Len(current) : current[i].name = o.name
        /\ \A o \in configMaps' : o.name \in Referenced(current)

\* C7: when updateClusterProfiles returns success for the trigger and the
\* cluster, every derived ClusterProfile is one the run created or updated
\* and every derived ConfigMap is referenced by one of them, whatever the
\* EventReport name or the oneForEvent setting it was produced under.
C7_GarbageCollection == [][C7_Step]_vars

NameAndSpec(cps) == {[name |-> o.name, spec |-> o.spec] : o \in cps}

C8_Step ==
    RunEnds /\ again =>
        /\ NameAndSpec(clusterProfiles') = NameAndSpec(cpStart.cps)
        /\ NamesOf(configMaps') \subseteq NamesOf(cpStart.cms)

\* C8: a run of updateClusterProfiles that follows a successful run on the
\* same trigger, EventReport and cluster leaves the derived ClusterProfiles
\* with the names and the specs they had, and creates no object.
C8_IdempotentExpansion == [][C8_Step]_vars

\* the step on which processEventTrigger returns for the cluster Cur
ProcessReturns == pc = "pr_clean" /\ pc' = "sweep"

C11_Step ==
    ProcessReturns /\ resource[idx].status = "Provisioned"
                   /\ resource'[idx].status = "Provisioning" =>
        \/ resource[idx].hash # currentHash
        \/ GetResult(Disp, Key(Cur, FALSE)) # "Deployed"

\* C11: when a reconcile pass turns the entry of a cluster from Provisioned
\* to Provisioning, the fingerprint differs from the hash the entry stores or
\* the dispatcher no longer holds a Deployed result for the deploy key.
C11_StatusMonotonicity == [][C11_Step]_vars

\* a pass has turned a Provisioned entry to Provisioning on an unchanged
\* fingerprint
C11_Witness ==
    /\ pc = "sweep"
    /\ ret.ci # NilClusterInfo
    /\ ret.ci.status = "Provisioning"
    /\ HasEntry(before, ret.cluster)
    /\ before[EntryIndex(before, ret.cluster)].status = "Provisioned"
    /\ before[EntryIndex(before, ret.cluster)].hash = currentHash

Digests(i) == hashOut[i].done /\ hashOut[i].err = NilErr

AtMostOneEntry(ci) == \A i, j \in 1..Len(ci) : ci[i].cluster = ci[j].cluster => i = j

\* C13: status.clusterInfo, as stored and as a pass holds it, has at most one
\* entry per cluster.
C13_AtMostOneEntryPerCluster == AtMostOneEntry(clusterInfo) /\ AtMostOneEntry(resource)

\* removeClusterInfoEntry has removed the entry of a cluster during a deploy
\* sweep and the entry of another cluster is left
C13_Witness ==
    /\ pc = "sweep"
    /\ mode = "deploy"
    /\ ret.ci # NilClusterInfo
    /\ ret.ci.status = "Removed"
    /\ Len(clusterInfo) >= 1
    /\ ~HasEntry(clusterInfo, ret.cluster)

\* the entry of a shard-foreign cluster that no replica has populated
NeverPopulated(e) ==
    ~isClusterAShardMatch(e.cluster) /\ e.status = "" /\ e.hash \in {NilHash, EmptyHash}

C14_Entry(e) ==
    NeverPopulated(e) \/ (e.hash = NilHash <=> e.status \in {"Removing", "Removed"})

\* C14: after a reconcile pass every entry of status.clusterInfo has a null
\* hash exactly when its status is Removing or Removed; the entry of a
\* shard-foreign cluster that was never populated is left aside.
C14_NullHashIffRemoved ==
    [][pc # "idle" /\ pc' = "idle" =>
          \A i \in 1..Len(clusterInfo') : C14_Entry(clusterInfo'[i])]_vars

\* a step of a sweep that is not its last
SweepStep == pc # "idle" /\ pc' # "idle"

C15_Step == SweepStep /\ errorSeen # NilErr => errorSeen' = errorSeen

\* C15: once a cluster step of a sweep has failed, the error the sweep is
\* going to return stays the error of that step: a later failure of the same
\* sweep does not replace it.
C15_FirstErrorRetained == [][C15_Step]_vars

\* a deploy sweep returns on this step
DeployReturns == mode = "deploy" /\ pc # "idle" /\ pc' = "idle"

\* C16: when a deploy sweep returns, every entry other than the one whose
\* step failed has been processed and its ClusterInfo recorded, also when the
\* failure is that of the shard lookup.
C16_PartialProgressRecorded ==
    [][DeployReturns => \A i \in 1..Len(resource) : i < idx \/ (i = idx /\ pc = "return")]_vars

\* C17: the list a matcher call returns names no trigger twice.
C17_NoTriggerTwice ==
    \A i, j \in 1..Len(requests) : requests[i] = requests[j] => i = j

Requested == {requests[i] : i \in 1..Len(requests)}

\* C18: the triggers a cluster change returns are those recorded for the
\* cluster in the index together with those whose selector matches the
\* labels the cluster has now.
C18_ClusterChangeUnion ==
    lastCall.kind = "cluster" =>
        Requested = ClusterMap[lastCall.key] \cup NowMatching(ClusterLabels[lastCall.key])

\* a cluster change returned a trigger that tracked the cluster and matches
\* no more, and a trigger that matches and did not track it
C18_Witness ==
    /\ lastCall.kind = "cluster"
    /\ \E t \in Requested :
          t \in ClusterMap[lastCall.key] /\ t \notin NowMatching(ClusterLabels[lastCall.key])
    /\ \E t \in Requested :
          t \notin ClusterMap[lastCall.key] /\ t \in NowMatching(ClusterLabels[lastCall.key])

C19_Step ==
    (/\ ProcessReturns
     /\ ~CleanupStillRunning(Disp, Cur)
     /\ getClusterHashAndStatus(resource, Cur).hash = currentHash
     /\ GetResult(Disp, Key(Cur, FALSE)) = "Failed") =>
        /\ ret'.ci # NilClusterInfo
        /\ ret'.ci.status = "Failed"
        /\ ret'.ci.failureMessage = "handler error"
        /\ ret'.err # NilErr

\* C19: when the fingerprint equals the stored hash and the dispatcher holds
\* a Failed result for the deploy key, processEventTrigger returns a
\* ClusterInfo with status Failed and the text of the error as failure
\* message, together with an error.
C19_FailedResultSurfaced == [][C19_Step]_vars

\* the deploy of cluster c has failed, the fingerprint is the one stored and
\* nothing changes any more
C20_Failed(c) ==
    /\ C3_Stable(c)
    /\ results[Key(c, FALSE)] = "err"
    /\ HasEntry(clusterInfo, c)
    /\ Entry(c).hash = currentHash

\* C20: after a failed deploy on an unchanged fingerprint the reconciles that
\* follow eventually submit the deploy again, which clears the Failed result.
C20_RetryAfterFailure ==
    \A c \in Clusters : [](C20_Failed(c) => <>(results[Key(c, FALSE)] # "err"))

\* after the step a request for the deploy key of cluster c is pending (a
\* submit of a key that is pending already is coalesced with it)
Submitted(c) == Pending(c, FALSE)'

\* processEventTrigger is past its checks for the matching, local, ready
\* cluster c with no cleanup in progress, and returns
DeployPathCall(c) == ProcessReturns /\ Cur = c /\ ~CleanupStillRunning(Disp, c)

C21_Returned(c) ==
    /\ Submitted(c)
    /\ ret'.cluster = c
    /\ ret'.ci = ClusterInfoOf(c, "Provisioning", currentHash, NilMsg)
    /\ ret'.err = NilErr

\* C21 as stated: for a matching, local, ready cluster with no cleanup in
\* progress, whenever the fresh fingerprint differs from the stored hash or
\* the dispatcher has no result for the deploy key, processEventTrigger
\* submits the deploy and returns Provisioning with the fresh fingerprint.
C21_Step ==
    \A c \in Clusters :
        (/\ DeployPathCall(c)
         /\ \/ getClusterHashAndStatus(resource, c).hash # currentHash
            \/ GetResult(Disp, Key(c, FALSE)) = "Unavailable") => C21_Returned(c)

C21_SubmitOnChangeOrNoResult == [][C21_Step]_vars

\* C21, amended: the same, except that an unchanged fingerprint with no result
\* and a stored status Provisioned is taken as already deployed: nothing is
\* submitted and Provisioned is returned.
C21_AmendedStep ==
    \A c \in Clusters :
        /\ (/\ DeployPathCall(c)
            /\ \/ getClusterHashAndStatus(resource, c).hash # currentHash
               \/ /\ GetResult(Disp, Key(c, FALSE)) = "Unavailable"
                  /\ getClusterHashAndStatus(resource, c).status # "Provisioned")
              => C21_Returned(c)
        /\ (/\ DeployPathCall(c)
            /\ getClusterHashAndStatus(resource, c).hash = currentHash
            /\ GetResult(Disp, Key(c, FALSE)) = "Unavailable"
            /\ getClusterHashAndStatus(resource, c).status = "Provisioned")
              => /\ UNCHANGED dispVars
                 /\ ret'.ci = ClusterInfoOf(c, "Provisioned", currentHash, NilMsg)
                 /\ ret'.err = NilErr

C21_SubmitUnlessAlreadyDeployed == [][C21_AmendedStep]_vars

\* C21 witness: a pass has just submitted the deploy of a cluster whose stored
\* hash was another fingerprint and whose stored status was Provisioned
C21_Witness ==
    /\ pc = "sweep"
    /\ mode = "deploy"
    /\ ret.cluster \in Clusters
    /\ ret.ci = ClusterInfoOf(ret.cluster, "Provisioning", currentHash, NilMsg)
    /\ Pending(ret.cluster, FALSE)
    /\ HasEntry(before, ret.cluster)
    /\ before[EntryIndex(before, ret.cluster)].status = "Provisioned"
    /\ before[EntryIndex(before, ret.cluster)].hash \notin {currentHash, NilHash}

\* C22: when processEventTrigger is past its checks for a matching, local,
\* ready cluster, the fingerprint equals the stored hash and the dispatcher
\* result for the deploy key is Deployed, the call changes nothing in the
\* dispatcher and returns, without error, a ClusterInfo with status
\* Provisioned and the fresh fingerprint as hash.
C22_Step ==
    \A c \in Clusters :
        (/\ DeployPathCall(c)
         /\ getClusterHashAndStatus(resource, c).hash = currentHash
         /\ GetResult(Disp, Key(c, FALSE)) = "Deployed") =>
            /\ UNCHANGED dispVars
            /\ ret'.cluster = c
            /\ ret'.ci # NilClusterInfo
            /\ ret'.ci.cluster = c
            /\ ret'.ci.status = "Provisioned"
            /\ ret'.ci.hash = currentHash
            /\ ret'.err = NilErr

C22_DeployedResult == [][C22_Step]_vars

\* C22 witness: the pass has just turned an entry that was Provisioning into
\* Provisioned on reading the Deployed result of its deploy key
C22_Witness ==
    /\ pc = "sweep"
    /\ mode = "deploy"
    /\ ret.cluster \in Clusters
    /\ ret.err = NilErr
    /\ ret.ci.status = "Provisioned"
    /\ ret.ci.hash = currentHash
    /\ results[Key(ret.cluster, FALSE)] = "ok"
    /\ ~Pending(ret.cluster, FALSE)
    /\ HasEntry(before, ret.cluster)
    /\ before[EntryIndex(before, ret.cluster)].status = "Provisioning"

\* a step of the deploy sweep at the entry of the local cluster c
SweepStepAt(c) ==
    /\ mode = "deploy"
    /\ pc \in {"sweep", "pr_clean", "rm_clean", "rm_submit"}
    /\ idx <= Len(resource)
    /\ PassStep
    /\ Cur = c
    /\ isClusterAShardMatch(c)

\* C23: a step of the pass at the entry of a local cluster that is paused or
\* not ready changes nothing the dispatcher holds (no submit, no pending entry
\* dropped), nor the stored status, nor the entry the pass holds, whether or
\* not the cluster still matches.
C23_Step ==
    \A c \in Clusters :
        (SweepStepAt(c) /\ ~canProceed(c)) => UNCHANGED <<dispVars, clusterInfo, resource>>

C23_NotReadyUntouched == [][C23_Step]_vars

\* removeEventTrigger returns for cluster c of the deploy sweep
RemoveReturns(c) == mode = "deploy" /\ pc = "rm_clean" /\ pc' = "sweep" /\ Cur = c

\* the deploy sweep is over and the status of the pass is recorded
StatusRecorded == mode = "deploy" /\ pc = "sweep" /\ pc' = "idle"

\* C24: when the cluster no longer matches, no deploy is in progress and the
\* dispatcher result for the cleanup key is Removed, removeEventTrigger
\* returns success and the entry is gone from the stored status; and once the
\* pass whose call returned Removed for the cluster has recorded its status,
\* status.clusterInfo holds no entry for that cluster.
C24_Step ==
    \A c \in Clusters :
        /\ (/\ RemoveReturns(c)
            /\ ~DeployStillRunning(Disp, c)
            /\ HasEntry(resource, c)
            /\ GetResult(Disp, Key(c, TRUE)) = "Removed") =>
               /\ ret'.cluster = c
               /\ ret'.err = NilErr
               /\ ~HasEntry(clusterInfo', c)
        /\ (/\ StatusRecorded
            /\ ret.cluster = c
            /\ ret.ci.status = "Removed"
            /\ ret.err = NilErr) => ~HasEntry(clusterInfo', c)

C24_RemovedEntryErased == [][C24_Step]_vars

\* C25: when removeEventTrigger reads the result InProgress for the cleanup
\* key it returns a ClusterInfo with status Removing and an error without
\* touching the dispatcher; and it submits the cleanup handler only when the
\* result for the cleanup key is neither Removed nor InProgress.
C25_Step ==
    \A c \in Clusters :
        /\ (/\ pc = "rm_clean"
            /\ PassStep
            /\ Cur = c
            /\ ~DeployStillRunning(Disp, c)
            /\ HasEntry(resource, c)
            /\ GetResult(Disp, Key(c, TRUE)) = "InProgress") =>
               /\ pc' = "sweep"
               /\ ret'.cluster = c
               /\ ret'.ci.status = "Removing"
               /\ ret'.err # NilErr
               /\ UNCHANGED dispVars
        /\ (/\ pc = "rm_submit"
            /\ PassStep
            /\ Cur = c
            /\ dispVars' # dispVars) =>
               GetResult(Disp, Key(c, TRUE)) \notin {"Removed", "InProgress"}

C25_NoResubmitWhileRemoving == [][C25_Step]_vars

\* the identity labels of the expansion the next Instantiate step makes
ExpansionLabels ==
    IF oneForEvent
    THEN getInstantiatedObjectLabelsForResource(
             getInstantiatedObjectLabels(eventReport.name),
             eventReport.matchingResources[cpIdx])
    ELSE getInstantiatedObjectLabels(eventReport.name)

\* the ClusterProfiles whose identity labels (EventReport, resource namespace,
\* resource name) are exactly those of the expansion
ExactMatches ==
    {o \in clusterProfiles :
        /\ o.labels.eventreport = ExpansionLabels.eventreport
        /\ o.labels.resourcenamespace = ExpansionLabels.resourcenamespace
        /\ o.labels.resourcename = ExpansionLabels.resourcename}

\* the Instantiate step wrote its ClusterProfile
Expanded == cpPc = "expand" /\ Len(current') = Len(current) + 1

\* C26: an expansion with no ClusterProfile of exactly its identity labels
\* creates one under a name no ClusterProfile has; with one such ClusterProfile
\* it reuses that name and creates none; with two or more it fails and leaves
\* the ClusterProfiles as they are.
C26_Step ==
    /\ (Expanded /\ ExactMatches = {}) =>
          /\ current'[Len(current')].name \notin NamesOf(clusterProfiles)
          /\ NamesOf(clusterProfiles') =
                NamesOf(clusterProfiles) \cup {current'[Len(current')].name}
    /\ (Expanded /\ Cardinality(ExactMatches) = 1) =>
          /\ current'[Len(current')].name \in NamesOf(ExactMatches)
          /\ NamesOf(clusterProfiles') = NamesOf(clusterProfiles)
    /\ (cpPc = "expand" /\ cpPc' # cpPc /\ Cardinality(ExactMatches) >= 2) =>
          /\ cpRet'.err # NilErr
          /\ clusterProfiles' = clusterProfiles

C26_LookupByIdentity == [][C26_Step]_vars

\* the derived ClusterProfiles of the EventReport of the run
OfEventReport(cps) == {o \in cps : o.labels.eventreport = eventReport.name}

\* C27: when updateClusterProfiles returns success with oneForEvent set, for
\* an EventReport that is not being deleted and lists n pairwise distinct
\* resources, exactly n derived ClusterProfiles carry the label of the
\* EventReport, one for each resource listed.
C27_Step ==
    (/\ RunEnds
     /\ cpRet'.kind = "update"
     /\ cpRet'.err = NilErr
     /\ oneForEvent
     /\ ~eventReport.deleting) =>
        /\ Cardinality(OfEventReport(clusterProfiles')) = Len(eventReport.matchingResources)
        /\ \A i \in 1..Len(eventReport.matchingResources) :
              \E o \in OfEventReport(clusterProfiles') :
                 /\ o.labels.resourcename = eventReport.matchingResources[i].name
                 /\ o.labels.resourcenamespace =
                       IF eventReport.matchingResources[i].namespace # ""
                       THEN eventReport.matchingResources[i].namespace ELSE Absent

C27_PerResourceSplit == [][C27_Step]_vars

\* a run of updateClusterProfiles on an EventReport that is being deleted or
\* lists no matching resource ends
EmptyRunEnds ==
    /\ RunEnds
    /\ cpRet'.kind = "update"
    /\ eventReport.deleting \/ eventReport.matchingResources = <<>>

\* C28: a run of updateClusterProfiles on an EventReport that is being deleted
\* or lists no matching resource creates and updates no derived object, and
\* when it returns success no derived ClusterProfile and no derived ConfigMap
\* or Secret of the trigger and the cluster is left.
C28_Step ==
    EmptyRunEnds =>
        /\ clusterProfiles' \subseteq cpStart.cps
        /\ configMaps' \subseteq cpStart.cms
        /\ cpRet'.err = NilErr => clusterProfiles' = {} /\ configMaps' = {}

C28_EmptyExpansion == [][C28_Step]_vars

\* a handler of a key returns on this step: no other step of SpecHandlers
\* leaves the triggers, the EventReport and the position of the expansion
\* as they are
HandlerStep ==
    UNCHANGED <<esTrigger, eventSourceName, mgmtEventSources, oneForEvent, policyRefs,
                eventReport, cpPc, cpIdx, current, cpStart, again, edits, cpRet>>

\* the derived objects of the trigger, by name
Derived == [cps |-> clusterProfiles, cms |-> configMaps]

C29_Step ==
    (/\ HandlerStep
     /\ esRet'.trigger = CPTrigger
     /\ ~esRet'.cleanup
     /\ esRet'.err = NilErr
     /\ esTrigger[CPTrigger] = "live"
     /\ eventSourceName[CPTrigger] \in mgmtEventSources
     /\ ~eventReport.deleting
     /\ eventReport.matchingResources # <<>>) =>
        \E o \in clusterProfiles' : o.labels.eventreport = eventReport.name

C29_AmendedStep ==
    \A t \in Triggers :
        HandlerStep /\ esRet'.trigger = t =>
            /\ ~esRet'.cleanup =>
                  /\ Derived' = Derived
                  /\ (/\ esTrigger[t] = "live"
                      /\ esRet'.err = NilErr
                      /\ eventSourceName[t] \in mgmtEventSources) =>
                         /\ eventSources'[eventSourceName[t]].exists
                         /\ t \in eventSources'[eventSourceName[t]].owners
                  /\ \A e \in ESNames :
                        t \in eventSources'[e].owners \ eventSources[e].owners =>
                           e = eventSourceName[t]
            /\ esRet'.cleanup =>
                  /\ clusterProfiles' \subseteq clusterProfiles
                  /\ configMaps' \subseteq configMaps
                  /\ \A e \in ESNames :
                        eventSources'[e].owners \subseteq eventSources[e].owners

C30_Step ==
    \A t \in Triggers :
        (/\ HandlerStep
         /\ esRet'.trigger = t
         /\ esRet'.cleanup
         /\ esRet'.err = NilErr
         /\ esTrigger[t] # "gone") =>
            /\ t = CPTrigger => clusterProfiles' = {} /\ configMaps' = {}
            /\ \A e \in ESNames : t \notin eventSources'[e].owners

\* C30: when the handler of the cleanup key returns success for a trigger
\* that still exists, no derived ClusterProfile or ConfigMap of the trigger
\* and the cluster remains, whatever EventReport it was produced for, and the
\* trigger owns no EventSource of the cluster.
C30_CleanupLeavesNothing == [][C30_Step]_vars

C30_DerivedStep ==
    (/\ HandlerStep
     /\ esRet'.trigger = CPTrigger
     /\ esRet'.cleanup
     /\ esRet'.err = NilErr
     /\ esTrigger[CPTrigger] # "gone") =>
        clusterProfiles' = {} /\ configMaps' = {}

\* the first half of C30 alone: the derived objects are gone
C30_DerivedObjectsGone == [][C30_DerivedStep]_vars

\* a handler of a key returns on this step of SpecES: the triggers and the
\* management cluster's EventSources are as they were and no EventReport is
\* pulled
ESHandlerStep == HandlerStep /\ eventReports' \subseteq eventReports

C31_Step ==
    \A t \in Triggers :
        (/\ ESHandlerStep
         /\ esRet'.trigger = t
         /\ esRet'.cleanup
         /\ esRet'.err = NilErr
         /\ esTrigger[t] # "gone") =>
            \A e \in ESNames :
                eventSources[e].exists /\ eventSources[e].owners = {t} =>
                    /\ ~eventSources'[e].exists
                    /\ e \notin eventReports'

\* C31: when removeStaleEventSources, called by the cleanup handler of a
\* trigger that exists, returns success, every EventSource the trigger was
\* the only owner of has been deleted from the managed cluster and its
\* EventReports have been deleted from the management cluster (a failure to
\* delete the EventReports is returned as an error).
C31_SuccessOnlyIfDeleted == [][C31_Step]_vars

\* the derived ConfigMaps made for the source n
CopiesOf(cms, n) == {o \in cms : o.labels.refname = n}

\* C32: after a successful call of instantiateValuesFrom, an entry whose
\* source exists without the template annotation still names the source and
\* no derived ConfigMap has been created for that source; an entry whose
\* source carries the annotation names a derived ConfigMap of ReportNamespace
\* that exists and was made for that source.
C32_ValuesFromResolution ==
    vfRet.called /\ vfRet.err = NilErr =>
        \A i \in 1..Len(vfValuesFrom) :
            LET n == vfValuesFrom[i].source
                out == vfRet.valuesFrom[i]
            IN  /\ out.source = n
                /\ vfSources[n] = "plain" =>
                      /\ out.copy = NoCopy
                      /\ NamesOf(CopiesOf(vfConfigMaps, n))
                            \subseteq NamesOf(CopiesOf(vfRet.before, n))
                /\ vfSources[n] = "template" =>
                      /\ out.copy # NoCopy
                      /\ \E o \in CopiesOf(vfConfigMaps, n) : o.name = out.copy

\* C32 witness: a call has succeeded on a list that names a source without
\* the annotation and a source with it, and has created the copy.
C32_Witness ==
    /\ vfRet.called
    /\ vfRet.err = NilErr
    /\ \E i, j \in 1..Len(vfValuesFrom) :
          /\ vfSources[vfValuesFrom[i].source] = "plain"
          /\ vfSources[vfValuesFrom[j].source] = "template"
          /\ vfRet.valuesFrom[j].copy \notin NamesOf(vfRet.before)

\* C33: when a call of instantiateValuesFrom meets only sources that do not
\* exist it returns no error and creates no derived ConfigMap; in every call
\* an entry whose source does not exist is left as written, and the entries
\* after it are processed: on success those with an annotated source are
\* redirected.
C33_MissingInputSkipped ==
    vfRet.called =>
        /\ (\A i \in 1..Len(vfValuesFrom) : vfSources[vfValuesFrom[i].source] = "missing")
              => vfRet.err = NilErr /\ vfConfigMaps = vfRet.before
        /\ \A i \in 1..Len(vfValuesFrom) :
              vfSources[vfValuesFrom[i].source] = "missing" =>
                 /\ vfRet.valuesFrom[i] = vfValuesFrom[i]
                 /\ NamesOf(CopiesOf(vfConfigMaps, vfValuesFrom[i].source))
                       \subseteq NamesOf(CopiesOf(vfRet.before, vfValuesFrom[i].source))
                 /\ \A j \in (i + 1)..Len(vfValuesFrom) :
                       (/\ vfSources[vfValuesFrom[j].source] = "template"
                        /\ vfRet.err = NilErr) => vfRet.valuesFrom[j].copy # NoCopy

\* C33 witness: a call has returned no error on a list whose first entry
\* names a source that does not exist and whose second entry was redirected.
C33_Witness ==
    /\ vfRet.called
    /\ vfRet.err = NilErr
    /\ Len(vfValuesFrom) = 2
    /\ vfSources[vfValuesFrom[1].source] = "missing"
    /\ vfRet.valuesFrom[1] = vfValuesFrom[1]
    /\ vfRet.valuesFrom[2].copy # NoCopy

\* the Update of an attempt of removeClusterInfoEntry returns on this step
SWUpdateStep == swPc = "update" /\ swPc' # "update"

C34_Step ==
    /\ SWUpdateStep /\ swObject' # swObject =>
          /\ swObject'.clusterInfo =
                removeClusterInfoEntry(swObject.clusterInfo, SWCluster)
          /\ swRead.version = swObject.version
          /\ swRet'.done /\ swRet'.err = NilErr
    /\ SWUpdateStep /\ swObject' = swObject =>
          IF swAttempts < DefaultRetrySteps
          THEN swPc' = "get" /\ ~swRet'.done
          ELSE swRet'.done /\ swRet'.err # NilErr
    /\ swAttempts' <= DefaultRetrySteps

\* C34: the status removeClusterInfoEntry writes is the status the API server
\* holds at that moment without the entry of the cluster, from an object read
\* at the version the server holds (an update another writer made since the
\* read is not overwritten); an Update refused for its version is followed by
\* a new read while fewer than DefaultRetrySteps attempts were made, and by
\* an error return after that.
C34_VersionConditionedStatusWrite == [][C34_Step]_vars

\* C34 witness: a call has returned nil after a refused Update, the entry of
\* the cluster is gone and the entry another writer added in between is kept.
C34_Witness ==
    /\ swRet.done
    /\ swRet.err = NilErr
    /\ swAttempts >= 2
    /\ ~HasEntry(swObject.clusterInfo, SWCluster)
    /\ HasEntry(swObject.clusterInfo, "c2")

\* the retries of a call were exhausted
C34_Exhausted == swRet.done /\ swRet.err = "conflict" /\ swAttempts = DefaultRetrySteps

\* the ClusterProfile the Instantiate step has created
Created == {o \in clusterProfiles' : o.name \notin NamesOf(clusterProfiles)}

C35_Step == Expanded => \A o \in Created : o.labels = ExpansionLabels

\* C35: a ClusterProfile is created with exactly the identity labels of its
\* expansion (EventReport and, per resource, resource namespace and name):
\* instantiating the templated policyRefs of the same expansion adds no
\* label of a referenced resource to them.
C35_CreatedWithIdentityLabels == [][C35_Step]_vars

C35_PlainStep == Expanded /\ policyRefs = {} => \A o \in Created : o.labels = ExpansionLabels

\* C35 for a trigger without templated references
C35_IdentityLabelsWithoutTemplates == [][C35_PlainStep]_vars

C36_Step ==
    \A c \in Clusters :
        (/\ DeployPathCall(c)
         /\ getClusterHashAndStatus(resource, c).hash = currentHash
         /\ getClusterHashAndStatus(resource, c).status = "Provisioned"
         /\ GetResult(Disp, Key(c, FALSE)) = "Unavailable") =>
            /\ ret'.ci.status = "Provisioned"
            /\ ret'.ci.hash = currentHash
            /\ ~Pending(c, FALSE)'
            /\ ~Running(c, FALSE)'
            /\ results' = results

\* C36: when processEventTrigger finds the stored hash equal to the
\* fingerprint, no result of the deploy key in the dispatcher and the stored
\* status Provisioned, it returns Provisioned and no deploy request is
\* pending or running after the call.
C36_NoRedeployWithoutResult == [][C36_Step]_vars

\* C36 witness: after the dispatcher lost its results, a pass has returned
\* Provisioned for a cluster whose entry was Provisioned with the current
\* fingerprint, and the dispatcher holds nothing for the deploy key.
C36_Witness ==
    /\ pc = "sweep"
    /\ mode = "deploy"
    /\ ret.cluster \in Clusters
    /\ ret.ci = ClusterInfoOf(ret.cluster, "Provisioned", currentHash, NilMsg)
    /\ HasEntry(before, ret.cluster)
    /\ before[EntryIndex(before, ret.cluster)].status = "Provisioned"
    /\ before[EntryIndex(before, ret.cluster)].hash = currentHash
    /\ results[Key(ret.cluster, FALSE)] = "none"
    /\ ~Pending(ret.cluster, FALSE)
    /\ ~Running(ret.cluster, FALSE)

\* removeEventTrigger returns to undeployEventTrigger on this step
UndeployReturns == mode = "undeploy" /\ pc \in {"rm_clean", "rm_submit"} /\ pc' = "sweep"

C37_Step ==
    (mode = "undeploy" /\ pc # "idle" /\ pc' # "idle") =>
        /\ Len(resource') = Len(resource)
        /\ \A i \in 1..Len(resource) :
              (resource'[i].status = "Removed" /\ resource[i].status # "Removed") =>
                  /\ i = idx
                  /\ UndeployReturns
                  /\ pc = "rm_clean"
                  /\ ret'.err = NilErr
                  /\ ~DeployStillRunning(Disp, Cur)
                  /\ \/ isClusterEntryRemoved(resource, Cur)
                     \/ GetResult(Disp, Key(Cur, TRUE)) = "Removed"
        /\ (UndeployReturns /\ ret'.err # NilErr) => resource' = resource
        /\ (SweepDone("undeploy") /\ errorSeen = NilErr) =>
              \A i \in 1..Len(resource) : resource[i].status = "Removed"

\* C37: during undeployEventTrigger an entry becomes Removed only on the
\* return of removeEventTrigger for its cluster with no error, which needs
\* no deploy in progress and the cleanup result Removed (or no entry); a
\* return with an error (cleanup queued, in progress or rejected) leaves the
\* entries as they are; and the loop ends without an error only when every
\* entry of the list is Removed.
C37_RemovedOnlyOnSuccess == [][C37_Step]_vars

\* C37 witness: undeployEventTrigger has visited a list of two entries, has
\* marked one Removed and has left the other, with an error to return.
C37_Witness ==
    /\ SweepDone("undeploy")
    /\ errorSeen # NilErr
    /\ Len(before) = Len(resource)
    /\ \E i, j \in 1..Len(resource) :
          /\ before[i].status # "Removed"
          /\ resource[i].status = "Removed"
          /\ resource[j].status # "Removed"

C38_Step ==
    \A t \in Triggers :
        (/\ ESHandlerStep
         /\ esRet'.trigger = t
         /\ ~esRet'.cleanup
         /\ esTrigger[t] # "live") =>
            /\ eventSources' = eventSources
            /\ eventReports' = eventReports
            /\ Derived' = Derived
            /\ esRet'.err = NilErr

C39_Step ==
    \A t \in Triggers :
        (ESHandlerStep /\ esRet'.trigger = t) =>
            /\ \A e \in ESNames :
                  (/\ t \notin eventSources[e].owners
                   /\ esRet'.cleanup \/ e # eventSourceName[t]) =>
                      /\ eventSources'[e] = eventSources[e]
                      /\ e \in eventReports => e \in eventReports'
            /\ (/\ ~esRet'.cleanup
                /\ esTrigger[t] = "live"
                /\ eventSources[eventSourceName[t]].exists
                /\ t \in eventSources[eventSourceName[t]].owners) =>
                   /\ eventSources'[eventSourceName[t]].exists
                   /\ t \in eventSources'[eventSourceName[t]].owners

\* C39: a run of a handler of a trigger leaves every EventSource the trigger
\* is not an owner of as it is, with its EventReports (the deploy handler may
\* create or update the one the trigger references, in deployEventSource);
\* and a run of the deploy handler for a live trigger never takes the
\* trigger out of the owners of the EventSource spec.eventSourceName names.
C39_OnlyOwnedAndStale == [][C39_Step]_vars

\* C39 witness: the deploy handler of t1 has swept a stale EventSource while
\* t1 still owns the EventSource it references and t2 owns one t1 does not.
C39_Witness ==
    /\ esRet.trigger = "t1"
    /\ ~esRet.cleanup
    /\ esRet.err = NilErr
    /\ esRet.updated \cup esRet.deleted # {}
    /\ esTrigger["t1"] = "live"
    /\ "t1" \in eventSources[eventSourceName["t1"]].owners
    /\ \E e \in ESNames : eventSources[e].owners = {"t2"}

\* the objects carrying the labels of the trigger and the cluster of the
\* last sweep
OfSweep(objects) ==
    {o \in objects : o.labels.trigger = mcRet'.trigger /\ o.labels.cluster = mcRet'.cluster}

\* removeInstantiatedResources returns on this step: the other steps of
\* SpecSweep add an object
SweepReturns ==
    /\ mcRet'.called
    /\ mcClusterProfiles' \subseteq mcClusterProfiles
    /\ mcConfigMaps' \subseteq mcConfigMaps

C40_Step ==
    SweepReturns =>
        /\ mcClusterProfiles \ mcClusterProfiles' \subseteq OfSweep(mcClusterProfiles)
        /\ mcConfigMaps \ mcConfigMaps' \subseteq
              {o \in OfSweep(mcConfigMaps) : o.namespace = ReportNamespace}
        /\ \A p \in OfSweep(mcClusterProfiles') :
              \A o \in mcConfigMaps : PolicyRefOf(o) \in p.spec.policyRefs =>
                 o \in mcConfigMaps'

\* C40: a call of removeInstantiatedResources for a trigger and a cluster
\* deletes only ClusterProfiles carrying the labels of
\* that trigger and that cluster and ConfigMaps of ReportNamespace carrying
\* them: the ConfigMaps of users, the objects of other triggers and of other
\* clusters stay; and every ConfigMap a ClusterProfile of the trigger and the
\* cluster left by the call references is still there.
C40_SweepDeletesOnlyOwnLabels == [][C40_Step]_vars

\* C40 witness: a sweep has deleted a ClusterProfile of its trigger and
\* cluster and has kept one of them with the ConfigMap it references, while
\* an object of another trigger or cluster and a ConfigMap of a user exist.
C40_Witness ==
    /\ mcRet.called
    /\ mcRet.current # {}
    /\ mcRet.current \subseteq mcClusterProfiles
    /\ \E o \in mcClusterProfiles :
          o.labels.trigger # mcRet.trigger \/ o.labels.cluster # mcRet.cluster
    /\ \E o \in mcConfigMaps : o.labels.trigger = Absent
    /\ \E o \in mcConfigMaps :
          /\ o.namespace # ReportNamespace
          /\ o.labels.trigger = mcRet.trigger
          /\ o.labels.cluster = mcRet.cluster

====
